---------------------------- MODULE Spec2Model ----------------------------
(***************************************************************************)
(* Urban Drive: the multiplayer synchronisation core.                      *)
(*                                                                         *)
(*   server  urban-drive/server/network/websocket.js  (WebSocketServer)    *)
(*   client  client/physics/vehicle.js                (Vehicle)            *)
(*           urban-drive/client/network/connection.js (WebSocketConnection)*)
(*           urban-drive/client/index.js              (callbacks)          *)
(*                                                                         *)
(* Numbers.  The program computes in IEEE doubles.  The model computes in  *)
(* fixed point: lengths in 1/1000 unit, speeds in 1/1000 unit per second,  *)
(* angles in 1/1000 rad, times in ms.  Every product is carried out on the *)
(* scaled integers and divided once, rounding toward minus infinity.       *)
(*                                                                         *)
(* Sockets.  Socket k is the k-th connection the server is handed; a       *)
(* socket is never reused, as in the program, where each connection is a   *)
(* fresh object.                                                           *)
(***************************************************************************)
EXTENDS Integers, Sequences, FiniteSets, TLC

VARIABLES
    \* ---- server: WebSocketServer ----
    readyState,        \* socket -> "NONE" | "OPEN" | "CLOSING" | "CLOSED"
    closeReason,       \* socket -> reason given to ws.close ("" when none)
    clients,           \* this.clients: socket -> client record
    nextClientId,      \* this.nextClientId
    connectionStats,   \* this.connectionStats (the three connection counters)
    now,               \* Date.now() on the server, ms
    \* ---- server: observation of the last handler run ----
    sent,              \* socket -> messages the last handler sent to it
    last,              \* what the last handler was and what it decided
    idLog,             \* ids in order of assignment
    disconnectedLog,   \* socket -> number of playerDisconnected broadcasts for it
    msgCount,          \* messages handled so far (bounds the run)
    \* ---- client: Vehicle ----
    vstate,            \* this.state (position x/z, rotation, speed, angularVelocity)
    pendingInputs,     \* this.pendingInputs
    sequence,          \* this.sequence
    inputHistory,      \* this.inputHistory, as the sequences of its inputs
    \* ---- client: observation of the last Vehicle call ----
    vlast,             \* what the last Vehicle call was and what it did
    \* ---- client: WebSocketConnection ----
    connId,            \* this.id
    uplink,            \* messages in flight from this client to the server
    wire,              \* messages in flight from the server to this client
    clast,             \* what the last onMessage did
    \* ---- server: Traffic (one actor of this.vehicles) ----
    actor,             \* the vehicle record
    moves,             \* position changes by a valid move so far (bounds the run)
    tlast,             \* what the last Traffic.updateVehicle did
    \* ---- client: WebSocketConnection, connecting and reconnecting ----
    webSocket,         \* this.ws: "none" | "connecting" | "open" | "failing" | "closed"
    isConnected,       \* this.connected
    reconnectAttempts, \* this.reconnectAttempts
    reconnectDelay,    \* this.reconnectDelay, in 1/DelayScale ms
    status,            \* the status updateStatusDisplay was last given
    timer,             \* the setTimeout of onClose: pending or not, and its delay
    \* ---- client: observation of the connection's life ----
    waits,             \* delays of the reconnections scheduled since the last open
    connectCalls,      \* calls of connect() so far
    opens,             \* connections opened so far (bounds the run)
    rlast,             \* what the last connection event was
    \* ---- client: the remote players (OtherPlayersManager, Vehicle) ----
    otherPlayers,      \* otherPlayers.players (OtherPlayersManager) with the mesh of each player
    remoteVehicle,     \* targetState and currentState of a Vehicle shown for a remote player
    clock,             \* Date.now() of the client
    ilast,             \* what the last frame of the remote players did
    synced,            \* a playerList sent since the registry last changed was processed
    \* ---- one input sequence through the client's and the validator's update ----
    sideBySide,        \* the state after the client's update, after the validator's, and the inputs so far
    \* ---- server: the timers of startPeriodicTasks and one idle session ----
    schedule           \* when the ping and sweep intervals are next due, when the session connects, its round trip

serverVars == <<readyState, closeReason, clients, nextClientId, connectionStats,
                now, sent, last, idLog, disconnectedLog, msgCount>>
vehicleVars == <<vstate, pendingInputs, sequence, inputHistory, vlast>>
connVars == <<connId, uplink, wire, clast>>
trafficVars == <<actor, moves, tlast>>
reconnectVars == <<webSocket, isConnected, reconnectAttempts, reconnectDelay, status,
                   timer, waits, connectCalls, opens, rlast>>
remoteVars == <<otherPlayers, remoteVehicle, clock, ilast, synced>>
replayVars == <<sideBySide>>
probeVars == <<schedule>>
vars == <<serverVars, vehicleVars, connVars, trafficVars, reconnectVars, remoteVars,
          replayVars, probeVars>>

---------------------------------------------------------------------------
(* Bounds of the model.                                                    *)

\* config.MAX_PLAYERS is 32 in shared/config.js; the model runs the same code
\* with a smaller capacity.
MAX_PLAYERS == 2
\* Connections the server is handed in one run: enough to fill the server,
\* be rejected, and be accepted again after a disconnect.
NumSockets == MAX_PLAYERS + 2
Sockets == 1..NumSockets
\* Local updates of the client's vehicle in one run.
MaxUpdates == 3
\* Vehicle.historyMaxSize is 100; the model runs the same code with a history
\* that fills within a run.
historyMaxSize == 2
\* Messages the server handles in one run.
MaxMessages == 2

\* Program constants.
\* The server clock is observed once per ClockStepMs, the period of the
\* server's shortest timer (the 5 s ping), until a session that was never
\* active has been idle for twice the timeout.
ClockStepMs == 5000
TIMEOUT_DURATION == 5000
ClockHorizonMs == 2 * TIMEOUT_DURATION
UPDATE_RATE == 30
TICK_RATE == 30
maxSpeed == 30
acceleration == 5
braking == 8
turnSpeed == 2
frictionPercent == 98
positionThreshold == 500
rotationThreshold == 100
speedThreshold == 1000

---------------------------------------------------------------------------
(* Arithmetic helpers.                                                     *)

Abs(n) == IF n < 0 THEN -n ELSE n
Min(a, b) == IF a < b THEN a ELSE b
Max(a, b) == IF a > b THEN a ELSE b

\* Math.sin for an angle in 1/1000 rad, result in 1/1000: Bhaskara's rational
\* approximation on [0, pi], odd and 2*pi-periodic elsewhere (error < 0.002).
SinMilli(r) ==
    LET t == r % 6283
        h == IF t > 3141 THEN t - 3141 ELSE t
        p == (h * (3141 - h)) \div 1000
        v == (16000 * p) \div (49348 - 4 * p)
    IN  IF t > 3141 THEN -v ELSE v

\* Math.cos, as the sine a quarter turn ahead.
CosMilli(r) == SinMilli(r + 1571)

\* sqrt(dx^2 + dy^2 + dz^2) > limit, without the square root; a component
\* beyond the limit decides it before the squares are formed.
fartherThan(dx, dy, dz, limit) ==
    \/ Abs(dx) > limit
    \/ Abs(dy) > limit
    \/ Abs(dz) > limit
    \/ dx * dx + dy * dy + dz * dz > limit * limit

---------------------------------------------------------------------------
(* Wire values.  A JSON field that is missing or is not a number is        *)
(* NotANumber; a number n is Num(n).                                        *)

Num(n) == [num |-> TRUE, v |-> n]
NotANumber == [num |-> FALSE, v |-> 0]

NoControls ==
    [accelerate |-> FALSE, brake |-> FALSE, turnLeft |-> FALSE,
     turnRight |-> FALSE, handbrake |-> FALSE,
     up |-> FALSE, down |-> FALSE, left |-> FALSE, right |-> FALSE]

\* The controls object the server substitutes when the message has none.
defaultControls == NoControls

\* Position messages the modelled clients send to the server.  A client is
\* free in what it reports, so these are chosen to reach every branch of the
\* validator: at rest, coasting fast, accelerating above the server's maximum
\* speed, and a message with nothing but its type.
PositionMessages ==
    { [hasPosition |-> TRUE, positionIsObject |-> TRUE,
       x |-> Num(0), y |-> Num(500), z |-> Num(0),
       rotation |-> Num(0), speed |-> Num(0), sequence |-> Num(1),
       hasControls |-> TRUE, controls |-> NoControls],
      [hasPosition |-> TRUE, positionIsObject |-> TRUE,
       x |-> Num(5000), y |-> Num(500), z |-> Num(5000),
       rotation |-> Num(1571), speed |-> Num(60000), sequence |-> Num(2),
       hasControls |-> TRUE, controls |-> NoControls],
      [hasPosition |-> TRUE, positionIsObject |-> TRUE,
       x |-> Num(2000), y |-> Num(500), z |-> NotANumber,
       rotation |-> Num(0), speed |-> Num(40000), sequence |-> Num(3),
       hasControls |-> TRUE,
       controls |-> [NoControls EXCEPT !.accelerate = TRUE, !.turnRight = TRUE]],
      [hasPosition |-> FALSE, positionIsObject |-> FALSE,
       x |-> NotANumber, y |-> NotANumber, z |-> NotANumber,
       rotation |-> NotANumber, speed |-> NotANumber, sequence |-> NotANumber,
       hasControls |-> FALSE, controls |-> NoControls] }

\* Position messages with parts missing or of the wrong type, around one
\* message that has everything: position missing, a string, or an object
\* with x, y or z not a number; rotation, speed and sequence a number or
\* not; controls there or not.  NotANumber stands for a missing field as for
\* one of another type: typeof gives something other than 'number' for both.
DefectivePositions ==
    { [hasPosition |-> FALSE, positionIsObject |-> FALSE,
       x |-> NotANumber, y |-> NotANumber, z |-> NotANumber],
      [hasPosition |-> TRUE, positionIsObject |-> FALSE,
       x |-> NotANumber, y |-> NotANumber, z |-> NotANumber],
      [hasPosition |-> TRUE, positionIsObject |-> TRUE,
       x |-> Num(2000), y |-> Num(700), z |-> Num(3000)],
      [hasPosition |-> TRUE, positionIsObject |-> TRUE,
       x |-> NotANumber, y |-> Num(700), z |-> Num(3000)],
      [hasPosition |-> TRUE, positionIsObject |-> TRUE,
       x |-> Num(2000), y |-> NotANumber, z |-> Num(3000)],
      [hasPosition |-> TRUE, positionIsObject |-> TRUE,
       x |-> Num(2000), y |-> Num(700), z |-> NotANumber] }

DefectiveMessages ==
    { [hasPosition |-> p.hasPosition, positionIsObject |-> p.positionIsObject,
       x |-> p.x, y |-> p.y, z |-> p.z,
       rotation |-> r, speed |-> v, sequence |-> q,
       hasControls |-> c,
       controls |-> [NoControls EXCEPT !.accelerate = c]] :
        p \in DefectivePositions,
        r \in {Num(100), NotANumber},
        v \in {Num(20000), NotANumber},
        q \in {Num(4), NotANumber},
        c \in BOOLEAN }

\* Milliseconds that pass between two Date.now() calls of one handler run.
HandlerElapsedMs == {0, 1}

---------------------------------------------------------------------------
(* Server: the validator's physics, initializePhysicsWorld().updateVehicle *)

updateVehicle(vehicle, input, dtMs) ==
    LET controls == input.controls
        speed1 ==
            IF controls.accelerate \/ controls.up
            THEN Min(vehicle.speed + acceleration * dtMs, maxSpeed * 1000)
            ELSE IF controls.brake \/ controls.down
            THEN Max(vehicle.speed - braking * dtMs, 0)
            ELSE (vehicle.speed * frictionPercent) \div 100
        rot1 == IF controls.turnLeft \/ controls.left
                THEN vehicle.rotation - turnSpeed * dtMs
                ELSE vehicle.rotation
        rot2 == IF controls.turnRight \/ controls.right
                THEN rot1 + turnSpeed * dtMs
                ELSE rot1
    IN  [vehicle EXCEPT
            !.speed = speed1,
            !.rotation = rot2,
            !.x = @ + (CosMilli(rot2) * speed1 * dtMs) \div 1000000,
            !.y = @ + (SinMilli(rot2) * speed1 * dtMs) \div 1000000]

\* Mutant: only the position is compared.
discrepancyInPositionOnly(serverState, clientState) ==
    fartherThan(serverState.x - clientState.x, serverState.y - clientState.y,
                serverState.z - clientState.z, positionThreshold)

\* The three drift thresholds of processServerPhysics.
discrepancy(serverState, clientState) ==
    LET dx == serverState.x - clientState.x
        dy == serverState.y - clientState.y
        dz == serverState.z - clientState.z
    IN  \/ fartherThan(dx, dy, dz, positionThreshold)
        \/ Abs(serverState.rotation - clientState.rotation) > rotationThreshold
        \/ Abs(serverState.speed - clientState.speed) > speedThreshold

---------------------------------------------------------------------------
(* Server: sending.                                                        *)

NoSent == [w \in Sockets |-> <<>>]

sendToClient(out, rs, ws, data) ==
    IF rs[ws] = "OPEN" THEN [out EXCEPT ![ws] = Append(@, data)] ELSE out

broadcastToAll(out, rs, data) ==
    [w \in Sockets |-> IF rs[w] = "OPEN" THEN Append(out[w], data) ELSE out[w]]

\* Mutant: the relay does not leave out the sender.
broadcastIncludingSender(out, rs, sender, data) ==
    [w \in Sockets |-> IF rs[w] = "OPEN" THEN Append(out[w], data) ELSE out[w]]

broadcastToOthers(out, rs, sender, data) ==
    [w \in Sockets |->
        IF w # sender /\ rs[w] = "OPEN" THEN Append(out[w], data) ELSE out[w]]

sendPing(out, rs, ws, t) ==
    sendToClient(out, rs, ws, [type |-> "ping", timestamp |-> t])

\* One entry of a playerList, and the playerPosition payload: the stored state
\* with its interpolation window.
playerEntry(client) ==
    [id |-> client.id,
     x |-> client.state.x, y |-> client.state.y, z |-> client.state.z,
     rotation |-> client.state.rotation,
     speed |-> client.state.speed,
     sequence |-> client.state.sequence,
     timestamp |-> client.state.timestamp,
     startTime |-> client.state.timestamp,
     endTime |-> client.state.timestamp + (1000 \div UPDATE_RATE)]

\* The registry in Map iteration order, which is insertion order: socket order.
RECURSIVE playersFrom(_, _)
playersFrom(cl, k) ==
    IF k > NumSockets THEN <<>>
    ELSE IF k \in DOMAIN cl THEN <<playerEntry(cl[k])>> \o playersFrom(cl, k + 1)
    ELSE playersFrom(cl, k + 1)

broadcastPlayerList(out, rs, cl, t) ==
    LET players == playersFrom(cl, 1)
    IN  IF Len(players) > 0
        THEN broadcastToAll(out, rs,
                [type |-> "playerList", players |-> players, timestamp |-> t])
        ELSE out

---------------------------------------------------------------------------
(* Server: the connection handler, setupEventHandlers.                     *)

defaultClientState(t) ==
    [x |-> 0, y |-> 0, z |-> 0, rotation |-> 0, speed |-> 0,
     sequence |-> 0, timestamp |-> t]

\* Mutant: the capacity test lets one more in.
serverFullOffByOne(stats) == stats.activeConnections > MAX_PLAYERS

\* The capacity test of the connection handler.
serverFull(stats) == stats.activeConnections >= MAX_PLAYERS

\* Mutant: the id is the new session's position among the active ones.
allocateIdByCount(nextId, stats) == stats.activeConnections + 1

\* "Generate unique ID for this client": the value of this.nextClientId++.
allocateId(nextId, stats) == nextId

newClient(id, t) ==
    [id |-> id, lastPing |-> t, latency |-> 0, state |-> defaultClientState(t),
     hasInput |-> FALSE, lastInput |-> [controls |-> NoControls],
     lastInputTime |-> 0]

\* Mutant: the welcome carries the number of sessions as the id.
welcomeWithCountAsId(id, stats) ==
    [type |-> "welcome", id |-> stats.activeConnections,
     maxPlayers |-> MAX_PLAYERS,
     currentPlayers |-> stats.activeConnections, tickRate |-> TICK_RATE,
     updateRate |-> UPDATE_RATE, timeoutDuration |-> TIMEOUT_DURATION]

welcomeMessage(id, stats) ==
    [type |-> "welcome", id |-> id, maxPlayers |-> MAX_PLAYERS,
     currentPlayers |-> stats.activeConnections, tickRate |-> TICK_RATE,
     updateRate |-> UPDATE_RATE, timeoutDuration |-> TIMEOUT_DURATION]

\* wss.on('connection'): the next socket arrives; a run hands the server
\* the sockets 1..limit.
OnConnection(limit) ==
    \E ws \in 1..limit :
        /\ readyState[ws] = "NONE"
        /\ \A k \in 1..(ws - 1) : readyState[k] # "NONE"
        /\ IF serverFull(connectionStats)
           THEN /\ readyState' = [readyState EXCEPT ![ws] = "CLOSING"]
                /\ closeReason' = [closeReason EXCEPT ![ws] = "Server full"]
                /\ sent' = NoSent
                /\ last' = [op |-> "connection", ws |-> ws,
                            info |-> [accepted |-> FALSE,
                                      registeredBefore |-> Cardinality(DOMAIN clients),
                                      nextIdBefore |-> nextClientId]]
                /\ UNCHANGED <<clients, nextClientId, connectionStats, idLog>>
           ELSE LET clientId == allocateId(nextClientId, connectionStats)
                    rs == [readyState EXCEPT ![ws] = "OPEN"]
                    cl == (ws :> newClient(clientId, now)) @@ clients
                    stats == [connectionStats EXCEPT
                                 !.totalConnections = @ + 1,
                                 !.activeConnections = @ + 1]
                    out1 == sendToClient(NoSent, rs, ws, welcomeMessage(clientId, stats))
                    out2 == broadcastPlayerList(out1, rs, cl, now)
                    out3 == sendPing(out2, rs, ws, now)
                IN  /\ readyState' = rs
                    /\ nextClientId' = nextClientId + 1
                    /\ clients' = cl
                    /\ connectionStats' = stats
                    /\ idLog' = Append(idLog, clientId)
                    /\ sent' = out3
                    /\ last' = [op |-> "connection", ws |-> ws,
                                info |-> [accepted |-> TRUE,
                                          registeredBefore |-> Cardinality(DOMAIN clients),
                                          nextIdBefore |-> nextClientId]]
                    /\ UNCHANGED closeReason
        /\ UNCHANGED <<now, disconnectedLog, msgCount>>

\* Whether the connection handler got as far as registering the socket's
\* 'message' and 'close' listeners (it returns before that when it rejects).
accepted(ws) == closeReason[ws] # "Server full" /\ readyState[ws] # "NONE"

\* Mutant: the close is not counted as a disconnection.
closeHandlerUncounted(ws) ==
    IF ws \in DOMAIN clients
    THEN LET client == clients[ws]
             rs == [readyState EXCEPT ![ws] = "CLOSED"]
         IN  /\ clients' = [w \in DOMAIN clients \ {ws} |-> clients[w]]
             /\ connectionStats' = [connectionStats EXCEPT
                                       !.activeConnections = @ - 1]
             /\ sent' = broadcastToAll(NoSent, rs,
                            [type |-> "playerDisconnected", id |-> client.id])
             /\ disconnectedLog' = [disconnectedLog EXCEPT ![ws] = @ + 1]
    ELSE /\ sent' = NoSent
         /\ UNCHANGED <<clients, connectionStats, disconnectedLog>>

\* Mutant: the close is announced and counted but the entry stays in the
\* registry.
closeHandlerKeepsEntry(ws) ==
    IF ws \in DOMAIN clients
    THEN LET client == clients[ws]
             rs == [readyState EXCEPT ![ws] = "CLOSED"]
         IN  /\ clients' = clients
             /\ connectionStats' = [connectionStats EXCEPT
                                       !.activeConnections = @ - 1,
                                       !.disconnections = @ + 1]
             /\ sent' = broadcastToAll(NoSent, rs,
                            [type |-> "playerDisconnected", id |-> client.id])
             /\ disconnectedLog' = [disconnectedLog EXCEPT ![ws] = @ + 1]
    ELSE /\ sent' = NoSent
         /\ UNCHANGED <<clients, connectionStats, disconnectedLog>>

\* ws.on('close'): the transport reports the socket closed, whoever began the
\* close (the client, the network, or the server's own ws.close).
closeHandler(ws) ==
    IF ws \in DOMAIN clients
    THEN LET client == clients[ws]
             rs == [readyState EXCEPT ![ws] = "CLOSED"]
         IN  /\ clients' = [w \in DOMAIN clients \ {ws} |-> clients[w]]
             /\ connectionStats' = [connectionStats EXCEPT
                                       !.activeConnections = @ - 1,
                                       !.disconnections = @ + 1]
             /\ sent' = broadcastToAll(NoSent, rs,
                            [type |-> "playerDisconnected", id |-> client.id])
             /\ disconnectedLog' = [disconnectedLog EXCEPT ![ws] = @ + 1]
    ELSE /\ sent' = NoSent
         /\ UNCHANGED <<clients, connectionStats, disconnectedLog>>

OnClose ==
    \E ws \in Sockets :
        /\ readyState[ws] \in {"OPEN", "CLOSING"}
        /\ readyState' = [readyState EXCEPT ![ws] = "CLOSED"]
        /\ IF accepted(ws)
           THEN closeHandler(ws)
           ELSE /\ sent' = NoSent
                /\ UNCHANGED <<clients, connectionStats, disconnectedLog>>
        /\ last' = [op |-> "close", ws |-> ws,
                    info |-> [registered |-> ws \in DOMAIN clients,
                              id |-> IF ws \in DOMAIN clients THEN clients[ws].id
                                     ELSE 0]]
        /\ UNCHANGED <<closeReason, nextClientId, now, idLog, msgCount>>

---------------------------------------------------------------------------
(* Server: the periodic tasks, startPeriodicTasks.                         *)

\* ws.close(code, reason) of the ws library: starts the closing handshake of
\* an open socket and does nothing to one that is already closing or closed.
wsClose(rs, ws) == IF rs[ws] = "OPEN" THEN [rs EXCEPT ![ws] = "CLOSING"] ELSE rs

\* Mutant: the sweep allows twice the timeout.
timedOutLate(client, t) == t - client.lastPing > 2 * TIMEOUT_DURATION

timedOut(client, t) == t - client.lastPing > TIMEOUT_DURATION

\* The sockets the sweep closes.
sweepTargets(cl, t) == {ws \in DOMAIN cl : timedOut(cl[ws], t)}

TimeoutSweep ==
    LET targets == sweepTargets(clients, now)
    IN  /\ readyState' = [ws \in Sockets |->
                            IF ws \in targets THEN wsClose(readyState, ws)[ws]
                            ELSE readyState[ws]]
        /\ closeReason' = [ws \in Sockets |->
                            IF ws \in targets /\ readyState[ws] = "OPEN"
                            THEN "Timeout" ELSE closeReason[ws]]
        /\ sent' = NoSent
        /\ last' = [op |-> "sweep", ws |-> 0, info |-> [targets |-> targets]]
        /\ UNCHANGED <<clients, nextClientId, connectionStats, now, idLog,
                       disconnectedLog, msgCount>>

RECURSIVE pingFrom(_, _, _, _, _)
pingFrom(out, rs, cl, t, k) ==
    IF k > NumSockets THEN out
    ELSE IF k \in DOMAIN cl THEN pingFrom(sendPing(out, rs, k, t), rs, cl, t, k + 1)
    ELSE pingFrom(out, rs, cl, t, k + 1)

PingAll ==
    /\ sent' = pingFrom(NoSent, readyState, clients, now, 1)
    /\ last' = [op |-> "ping", ws |-> 0, info |-> [t |-> now]]
    /\ UNCHANGED <<readyState, closeReason, clients, nextClientId,
                   connectionStats, now, idLog, disconnectedLog, msgCount>>

PeriodicPlayerList ==
    /\ sent' = broadcastPlayerList(NoSent, readyState, clients, now)
    /\ last' = [op |-> "playerList", ws |-> 0, info |-> [t |-> now]]
    /\ UNCHANGED <<readyState, closeReason, clients, nextClientId,
                   connectionStats, now, idLog, disconnectedLog, msgCount>>

\* Time passes on the server.
Tick ==
    /\ now < ClockHorizonMs
    /\ now' = now + ClockStepMs
    /\ sent' = NoSent
    /\ last' = [op |-> "tick", ws |-> 0, info |-> [t |-> now]]
    /\ UNCHANGED <<readyState, closeReason, clients, nextClientId,
                   connectionStats, idLog, disconnectedLog, msgCount>>

---------------------------------------------------------------------------
(* Server: handleMessage.                                                  *)

\* typeof f === 'number' ? f : d
numberOr(f, d) == IF f.num THEN f.v ELSE d

\* The 'position' case up to "Store client input": missing or non-numeric
\* fields are replaced by their defaults.
sanitize(data) ==
    [x |-> IF data.hasPosition THEN numberOr(data.x, 0) ELSE 0,
     y |-> IF data.hasPosition THEN numberOr(data.y, 500) ELSE 500,
     z |-> IF data.hasPosition THEN numberOr(data.z, 0) ELSE 0,
     rotation |-> numberOr(data.rotation, 0),
     speed |-> numberOr(data.speed, 0),
     sequence |-> numberOr(data.sequence, 0),
     controls |-> IF data.hasControls THEN data.controls ELSE defaultControls]

\* "Update client state with position data".
reportedState(data, t) ==
    [x |-> data.x, y |-> data.y, z |-> data.z, rotation |-> data.rotation,
     speed |-> data.speed, sequence |-> data.sequence, timestamp |-> t]

\* The state updateVehicle integrates from: processServerPhysics passes it a
\* copy of client.state.
integrationBase(client) == client.state

reconciliationMessage(client, serverState, t) ==
    [type |-> "serverReconciliation",
     sequence |-> client.state.sequence,
     x |-> serverState.x, y |-> serverState.y, z |-> serverState.z,
     rotation |-> serverState.rotation, speed |-> serverState.speed,
     timestamp |-> t]

\* Whether processServerPhysics may send on the client's socket.
canSend(rs, ws) == rs[ws] = "OPEN"

\* processServerPhysics(client), called at time t; the result carries the
\* client record after the call, the output and what was decided.
processServerPhysics(client, ws, rs, out, t) ==
    IF ~client.hasInput
    THEN [client |-> client, out |-> out, ran |-> FALSE, deltaTime |-> 0,
          serverState |-> client.state, exceeded |-> FALSE, reconciled |-> FALSE]
    ELSE LET deltaTime == t - client.lastInputTime
             serverState == updateVehicle(integrationBase(client),
                                          client.lastInput, deltaTime)
             exceeded == discrepancy(serverState, client.state)
         IN  IF exceeded /\ canSend(rs, ws)
             THEN [client |-> [client EXCEPT !.state = serverState],
                   out |-> [out EXCEPT ![ws] = Append(@,
                               reconciliationMessage(client, serverState, t))],
                   ran |-> TRUE, deltaTime |-> deltaTime,
                   serverState |-> serverState, exceeded |-> TRUE,
                   reconciled |-> TRUE]
             ELSE [client |-> client, out |-> out, ran |-> TRUE,
                   deltaTime |-> deltaTime, serverState |-> serverState,
                   exceeded |-> exceeded, reconciled |-> FALSE]

playerPositionMessage(client) ==
    [type |-> "playerPosition"] @@ playerEntry(client)

\* The relay of the 'position' case.
relayPosition(out, rs, ws, client) ==
    broadcastToOthers(out, rs, ws, playerPositionMessage(client))

\* A message can be delivered on a socket whose listeners are registered
\* until the socket is closed, also while the server's own close is pending.
canDeliver(ws) == accepted(ws) /\ readyState[ws] \in {"OPEN", "CLOSING"}

\* The 'position' case throws, into its own catch, when it assigns
\* data.position.x on a position that is there but is no object: the
\* method is class code, which is strict.
positionThrows(raw) == raw.hasPosition /\ ~raw.positionIsObject

\* handleMessage, case 'position', for the message raw on socket ws; elapsed
\* is the time the handler takes to get to processServerPhysics.
handlePosition(ws, raw, elapsed) ==
    /\ canDeliver(ws)
    /\ ws \in DOMAIN clients
    /\ IF positionThrows(raw)
       THEN /\ clients' = [clients EXCEPT ![ws].lastPing = now]
            /\ sent' = NoSent
            /\ last' = [op |-> "positionError", ws |-> ws,
                        info |-> [raw |-> raw]]
       ELSE LET data == sanitize(raw)
                client1 == [clients[ws] EXCEPT
                               !.lastPing = now,
                               !.hasInput = TRUE,
                               !.lastInput = data,
                               !.lastInputTime = now,
                               !.state = reportedState(data, now)]
                phys == processServerPhysics(client1, ws, readyState, NoSent,
                                             now + elapsed)
                out == relayPosition(phys.out, readyState, ws, phys.client)
            IN  /\ clients' = [clients EXCEPT ![ws] = phys.client]
                /\ sent' = out
                /\ last' = [op |-> "position", ws |-> ws,
                            info |-> [raw |-> raw,
                                      data |-> data,
                                      stored |-> clients[ws].state,
                                      reported |-> reportedState(data, now),
                                      serverState |-> phys.serverState,
                                      deltaTime |-> phys.deltaTime,
                                      exceeded |-> phys.exceeded,
                                      reconciled |-> phys.reconciled,
                                      open |-> readyState[ws] = "OPEN"]]
    /\ UNCHANGED <<readyState, closeReason, nextClientId, connectionStats,
                   now, idLog, disconnectedLog>>

\* A position message arrives on some session's socket.
HandlePosition ==
    \E ws \in Sockets, raw \in PositionMessages, elapsed \in HandlerElapsedMs :
        /\ msgCount < MaxMessages
        /\ handlePosition(ws, raw, elapsed)
        /\ msgCount' = msgCount + 1

\* A position message with parts missing or of the wrong type arrives.
HandleDefective ==
    \E ws \in Sockets, raw \in DefectiveMessages, elapsed \in HandlerElapsedMs :
        /\ msgCount < MaxMessages
        /\ handlePosition(ws, raw, elapsed)
        /\ msgCount' = msgCount + 1

\* Timestamps a pong can echo: those of the pings of this and the last step.
PongTimestamps(t) == {t} \cup (IF t >= ClockStepMs THEN {t - ClockStepMs} ELSE {})

\* handleMessage, case 'pong', for a pong that echoes the timestamp ts.
handlePong(ws, ts) ==
    /\ canDeliver(ws)
    /\ ws \in DOMAIN clients
    /\ clients' = [clients EXCEPT ![ws].lastPing = now,
                                  ![ws].latency = now - ts]
    /\ sent' = NoSent
    /\ last' = [op |-> "pong", ws |-> ws, info |-> [t |-> now]]
    /\ UNCHANGED <<readyState, closeReason, nextClientId, connectionStats,
                   now, idLog, disconnectedLog>>

HandlePong ==
    \E ws \in Sockets :
        \E ts \in PongTimestamps(now) : handlePong(ws, ts) /\ UNCHANGED msgCount

\* handleMessage, case 'chat'.
HandleChat ==
    \E ws \in Sockets :
        /\ canDeliver(ws)
        /\ ws \in DOMAIN clients
        /\ clients' = [clients EXCEPT ![ws].lastPing = now]
        /\ sent' = broadcastToAll(NoSent, readyState,
                       [type |-> "chatMessage", id |-> clients[ws].id,
                        message |-> "hello"])
        /\ last' = [op |-> "chat", ws |-> ws, info |-> [t |-> now]]
        /\ UNCHANGED <<readyState, closeReason, nextClientId, connectionStats,
                       now, idLog, disconnectedLog, msgCount>>

\* Message texts, as their tokens: cut short, empty, no JSON at all, the
\* JSON value null, and objects with a type the switch handles or not.
RawTexts ==
    { <<>>,
      <<"{">>,
      <<"{", "type", ":", "chat">>,
      <<"hello">>,
      <<"null">>,
      <<"{", "type", ":", "chat", "}">>,
      <<"{", "type", ":", "dance", "}">> }

\* Mutant: every text is taken for a chat message.
parseAnything(text) == [ok |-> TRUE, isObject |-> TRUE, type |-> "chat"]

\* JSON.parse(message): ok is FALSE when it throws.
JSONparse(text) ==
    IF text = <<"null">>
    THEN [ok |-> TRUE, isObject |-> FALSE, type |-> ""]
    ELSE IF /\ Len(text) = 5
            /\ text[1] = "{" /\ text[3] = ":" /\ text[5] = "}"
    THEN [ok |-> TRUE, isObject |-> TRUE,
          type |-> IF text[2] = "type" THEN text[4] ELSE ""]
    ELSE [ok |-> FALSE, isObject |-> FALSE, type |-> ""]

\* handleMessage(ws, message) for a text that is no pong and no position
\* message: the parse, the lookup of the client, the refresh of lastPing
\* and the switch; the catch of the whole handler takes the throw of
\* JSON.parse and that of data.type on null.
handleMessage(ws, text) ==
    LET data == JSONparse(text)
        known == ws \in DOMAIN clients
        refreshed == IF data.ok /\ known
                     THEN [clients EXCEPT ![ws].lastPing = now]
                     ELSE clients
    IN  /\ clients' = refreshed
        /\ sent' = IF data.ok /\ known /\ data.isObject /\ data.type = "chat"
                   THEN broadcastToAll(NoSent, readyState,
                            [type |-> "chatMessage", id |-> clients[ws].id,
                             message |-> "hello"])
                   ELSE NoSent
        /\ last' = [op |-> "message", ws |-> ws,
                    info |-> [text |-> text, parsed |-> data.ok,
                              clientsBefore |-> clients,
                              readyStateBefore |-> readyState,
                              closeReasonBefore |-> closeReason]]
        /\ UNCHANGED <<readyState, closeReason, nextClientId, connectionStats,
                       now, idLog, disconnectedLog, msgCount>>

\* A text arrives on a socket whose message handler is registered.
HandleMessage ==
    \E ws \in Sockets, text \in RawTexts :
        /\ canDeliver(ws)
        /\ handleMessage(ws, text)

\* Types of the messages that arrive after the close.
LateTypes == {"position", "pong", "chat"}

\* handleMessage(ws, message) when this.clients has no entry for ws: the
\* message is counted as received (msgCount stands for
\* connectionStats.messagesReceived here), parsed, and the handler returns
\* with a warning before it refreshes or dispatches anything.
handleUnknownClient(ws, type) ==
    /\ ws \notin DOMAIN clients
    /\ msgCount' = msgCount + 1
    /\ sent' = NoSent
    /\ last' = [op |-> "late", ws |-> ws,
                info |-> [type |-> type,
                          clientsBefore |-> clients,
                          statsBefore |-> connectionStats,
                          readyStateBefore |-> readyState,
                          receivedBefore |-> msgCount]]
    /\ UNCHANGED <<readyState, closeReason, clients, nextClientId,
                   connectionStats, now, idLog, disconnectedLog>>

\* A message of a session is handled after the session's close: the
\* listener of the socket runs once more.
LateMessage ==
    \E ws \in Sockets, type \in LateTypes :
        /\ accepted(ws)
        /\ readyState[ws] = "CLOSED"
        /\ msgCount < MaxMessages
        /\ handleUnknownClient(ws, type)

---------------------------------------------------------------------------
(* The server on its own.                                                  *)

ServerInit ==
    /\ readyState = [w \in Sockets |-> "NONE"]
    /\ closeReason = [w \in Sockets |-> ""]
    /\ clients = <<>>
    /\ nextClientId = 1
    /\ connectionStats = [totalConnections |-> 0, activeConnections |-> 0,
                          disconnections |-> 0]
    /\ now = 0
    /\ sent = NoSent
    /\ last = [op |-> "init", ws |-> 0, info |-> [t |-> 0]]
    /\ idLog = <<>>
    /\ disconnectedLog = [w \in Sockets |-> 0]
    /\ msgCount = 0

---------------------------------------------------------------------------
(* Client: Vehicle (client/physics/vehicle.js).                            *)
(*                                                                         *)
(* The inputs carry no collision: the CollisionManager is outside the      *)
(* synchronisation core, so update is called with collision = null.  The   *)
(* write-only fields lastProcessedServerState and the input's timestamp,   *)
(* and the meshes, are left out; of inputHistory the sequences are kept.   *)

\* Program constants of Vehicle.params, and the reconciliation thresholds.
vMaxSpeed == 100
vAcceleration == 15
vBraking == 20
vReverseSpeed == 40
vSteeringAngle == 785
vSteeringSpeed == 4
reconcilePositionThreshold == 500
reconcileRotationThreshold == 100
reconcileSpeedThreshold == 2000

\* index.js creates the vehicle at (5, 0.5, 5).
VehicleInitialState ==
    [x |-> 5000, z |-> 5000, rotation |-> 0, speed |-> 0, angularVelocity |-> 0]

\* What Controls.update() hands to Vehicle.update: the keys held.
Keys(up, down, left, right) ==
    [up |-> up, down |-> down, left |-> left, right |-> right, space |-> FALSE]

KeyChoices ==
    { Keys(TRUE, FALSE, FALSE, FALSE),
      Keys(TRUE, FALSE, TRUE, FALSE),
      Keys(FALSE, FALSE, FALSE, FALSE) }

\* Frame times in ms handed to Vehicle.update: none, and a quarter second.
DeltaTimes == {0, 250}

\* The input object Vehicle.update creates.
\* Mutant: the input is numbered by its place in the queue.
newInputByQueueLength(seq, keys, dtMs) ==
    [sequence |-> Len(pendingInputs),
     controls |-> [up |-> keys.up, down |-> keys.down, left |-> keys.left,
                   right |-> keys.right, space |-> keys.space,
                   accelerate |-> keys.up, brake |-> keys.down,
                   turnLeft |-> keys.left, turnRight |-> keys.right,
                   handbrake |-> keys.space],
     deltaTime |-> dtMs]

newInput(seq, keys, dtMs) ==
    [sequence |-> seq,
     controls |-> [up |-> keys.up, down |-> keys.down, left |-> keys.left,
                   right |-> keys.right, space |-> keys.space,
                   accelerate |-> keys.up, brake |-> keys.down,
                   turnLeft |-> keys.left, turnRight |-> keys.right,
                   handbrake |-> keys.space],
     deltaTime |-> dtMs]

\* _processInput, the speed after "Handle acceleration and braking".
speedAfter(speed, controls, dt) ==
    IF controls.accelerate \/ controls.up
    THEN LET factor == 1000 - (Abs(speed) * 7) \div 1000
             s1 == speed + (vAcceleration * factor * dt) \div 1000
         IN  IF s1 > vMaxSpeed * 1000 THEN vMaxSpeed * 1000 ELSE s1
    ELSE IF controls.brake \/ controls.down
    THEN IF speed > 0
         THEN LET s1 == speed - vBraking * dt
              IN  IF s1 < 100 THEN 0 ELSE s1
         ELSE LET factor == 1000 - Abs(speed) \div (2 * vReverseSpeed)
                  s1 == speed - (vAcceleration * factor * dt) \div 1000
              IN  IF s1 < -(vReverseSpeed * 1000) THEN -(vReverseSpeed * 1000)
                  ELSE s1
    ELSE IF Abs(speed) > 100
         THEN (speed * (1000 - (7 * dt) \div 2)) \div 1000
         ELSE 0

\* _processInput, the angular velocity after "Handle steering".
angularVelocityAfter(angularVelocity, speed, controls) ==
    IF Abs(speed) > 100
    THEN LET speedFactor == 1000 - (Min(Abs(speed), vMaxSpeed * 1000) * 3) \div 1000
             a1 == IF controls.turnLeft \/ controls.left
                   THEN vSteeringSpeed * speedFactor
                   ELSE IF controls.turnRight \/ controls.right
                   THEN -(vSteeringSpeed * speedFactor)
                   ELSE LET d == (angularVelocity * 95) \div 100
                        IN  IF Abs(d) < 10 THEN 0 ELSE d
             maxAngularVelocity == (vSteeringAngle * speedFactor) \div 1000
         IN  Max(-maxAngularVelocity, Min(maxAngularVelocity, a1))
    ELSE 0

\* _processInput(input) on the state st.
processInput(st, input) ==
    LET dt == input.deltaTime
        speed1 == speedAfter(st.speed, input.controls, dt)
        av1 == angularVelocityAfter(st.angularVelocity, speed1, input.controls)
        turnRate == (av1 * dt) \div 1000
        travel == (speed1 * dt) \div 1000
    IN  [x |-> st.x + (SinMilli(st.rotation) * travel) \div 1000,
         z |-> st.z + (CosMilli(st.rotation) * travel) \div 1000,
         rotation |-> st.rotation + turnRate,
         speed |-> speed1,
         angularVelocity |-> av1]

\* "Limit history size": the oldest entry goes when the history overflows.
limitHistory(history) ==
    IF Len(history) > historyMaxSize THEN Tail(history) ELSE history

\* Vehicle.update(controls, deltaTime): returns early on a zero deltaTime.
VehicleUpdate(keySet, dtSet) ==
    \E keys \in keySet, dt \in dtSet :
        /\ sequence < MaxUpdates
        /\ IF dt = 0
           THEN /\ vlast' = [op |-> "update", created |-> FALSE,
                             previous |-> sequence - 1]
                /\ UNCHANGED <<vstate, pendingInputs, sequence, inputHistory>>
           ELSE LET input == newInput(sequence, keys, dt)
                IN  /\ sequence' = sequence + 1
                    /\ inputHistory' = limitHistory(Append(inputHistory, input.sequence))
                    /\ pendingInputs' = Append(pendingInputs, input)
                    /\ vstate' = processInput(vstate, input)
                    /\ vlast' = [op |-> "update", created |-> TRUE,
                                 previous |-> sequence - 1]

\* getNetworkState() of a vehicle in state st whose next sequence is seq:
\* what the client reports to the server.
networkStateOf(st, seq) ==
    [hasPosition |-> TRUE, positionIsObject |-> TRUE,
     x |-> Num(st.x), y |-> Num(500), z |-> Num(st.z),
     rotation |-> Num(st.rotation), speed |-> Num(st.speed),
     sequence |-> Num(seq - 1),
     hasControls |-> TRUE, controls |-> NoControls]

getNetworkState == networkStateOf(vstate, sequence)

\* Mutant: findIndex(input => input.sequence >= seq), the first input at or
\* after the acknowledged sequence.
RECURSIVE findIndexAtLeast(_, _, _)
findIndexAtLeast(queue, seq, i) ==
    IF i > Len(queue) THEN 0
    ELSE IF queue[i].sequence >= seq THEN i
    ELSE findIndexAtLeast(queue, seq, i + 1)

\* pendingInputs.findIndex(input => input.sequence === seq), 1-based; 0 when
\* there is none.
RECURSIVE findIndexFrom(_, _, _)
findIndexFrom(queue, seq, i) ==
    IF i > Len(queue) THEN 0
    ELSE IF queue[i].sequence = seq THEN i
    ELSE findIndexFrom(queue, seq, i + 1)

\* Mutant: splice(0, ackIndex), which keeps the acknowledged input.
trimKeepingAcknowledged(queue, seq) ==
    LET ackIndex == findIndexFrom(queue, seq, 1)
    IN  IF ackIndex # 0 THEN SubSeq(queue, ackIndex, Len(queue)) ELSE queue

\* The inputs that stay pending: splice(0, ackIndex + 1) when the acknowledged
\* input is found.
trimAcknowledged(queue, seq) ==
    LET ackIndex == findIndexFrom(queue, seq, 1)
    IN  IF ackIndex # 0 THEN SubSeq(queue, ackIndex + 1, Len(queue)) ELSE queue

\* "Check if significant discrepancy exists".
significantDiscrepancy(serverState, st) ==
    LET dx == serverState.x - st.x
        dz == serverState.z - st.z
    IN  \/ fartherThan(dx, 0, dz, reconcilePositionThreshold)
        \/ Abs(serverState.rotation - st.rotation) > reconcileRotationThreshold
        \/ Abs(serverState.speed - st.speed) > reconcileSpeedThreshold

\* Mutant: the correction leaves the speed as it was.
snapPositionOnly(st, serverState) ==
    [st EXCEPT !.x = serverState.x, !.z = serverState.z,
               !.rotation = serverState.rotation]

\* "Set state to the server-provided values": x, z, rotation and speed; the
\* height and the angular velocity are not part of the correction.
snapTo(st, serverState) ==
    [st EXCEPT !.x = serverState.x, !.z = serverState.z,
               !.rotation = serverState.rotation, !.speed = serverState.speed]

\* pendingInputs.forEach(input => this._processInput(input)), with the
\* sequence numbers it passed to _processInput.
RECURSIVE replayInputs(_, _, _)
replayInputs(st, queue, log) ==
    IF queue = <<>> THEN [state |-> st, log |-> log]
    ELSE replayInputs(processInput(st, Head(queue)), Tail(queue),
                      Append(log, Head(queue).sequence))

\* Whether applyServerReconciliation corrects the local state at all.
correctionNeeded(serverState, st) == significantDiscrepancy(serverState, st)

\* applyServerReconciliation(serverState, seq).
applyServerReconciliation(serverState, seq) ==
    LET remaining == trimAcknowledged(pendingInputs, seq)
        significant == correctionNeeded(serverState, vstate)
        replay == replayInputs(snapTo(vstate, serverState), remaining, <<>>)
    IN  /\ pendingInputs' = remaining
        /\ vstate' = IF significant THEN replay.state ELSE vstate
        /\ vlast' = [op |-> "reconcile",
                     seq |-> seq,
                     serverState |-> serverState,
                     significant |-> significant,
                     stateBefore |-> vstate,
                     pendingBefore |-> pendingInputs,
                     replayed |-> IF significant THEN replay.log ELSE <<>>,
                     repeated |-> /\ vlast.op = "reconcile"
                                  /\ vlast.seq = seq
                                  /\ vlast.serverState = serverState]
        /\ UNCHANGED <<sequence, inputHistory>>

\* Authoritative states a reconciliation record can carry: one a little off
\* the spawn point (within every threshold of a vehicle at rest there), and
\* one well ahead of it.
AuthoritativeStates ==
    { [x |-> 5100, y |-> 500, z |-> 5000, rotation |-> 0, speed |-> 1000],
      [x |-> 5000, y |-> 500, z |-> 9000, rotation |-> 200, speed |-> 12000] }

\* The sequences a reconciliation can reference: the server echoes the sequence
\* of a position message, and getNetworkState reports sequence - 1.
AcknowledgeableSequences == (-1)..(sequence - 1)

\* The reconciliation callback of index.js is run for a record of the server.
Reconcile ==
    \E seq \in AcknowledgeableSequences, serverState \in AuthoritativeStates :
        applyServerReconciliation(serverState, seq)

VehicleInit ==
    /\ vstate = VehicleInitialState
    /\ pendingInputs = <<>>
    /\ sequence = 0
    /\ inputHistory = <<>>
    /\ vlast = [op |-> "init"]

\* One input sequence through both update functions: the client's
\* _processInput and the validator's updateVehicle start from the same
\* state and are given the same inputs.
MaxReplay == 3

\* The keys of the inputs and their frame times in ms.
ReplayKeys ==
    { Keys(TRUE, FALSE, FALSE, FALSE),
      Keys(TRUE, FALSE, FALSE, TRUE),
      Keys(FALSE, TRUE, FALSE, FALSE),
      Keys(FALSE, FALSE, FALSE, FALSE) }
ReplayDeltaTimes == {16, 250}

\* The start state as the validator holds it: the position the client
\* reports, with the height index.js creates the vehicle at.
validatorStateOf(st) ==
    [x |-> st.x, y |-> 500, z |-> st.z, rotation |-> st.rotation,
     speed |-> st.speed]

ReplayInit ==
    sideBySide = [client |-> VehicleInitialState,
                  server |-> validatorStateOf(VehicleInitialState),
                  inputs |-> 0]

\* The next input goes through both functions.
ReplayStep ==
    \E keys \in ReplayKeys, dt \in ReplayDeltaTimes :
        /\ sideBySide.inputs < MaxReplay
        /\ LET input == newInput(sideBySide.inputs, keys, dt)
           IN  sideBySide' = [client |-> processInput(sideBySide.client, input),
                              server |-> updateVehicle(sideBySide.server, input, dt),
                              inputs |-> sideBySide.inputs + 1]

\* The constructor of WebSocketConnection: the attempts allowed and the first
\* delay in ms.
maxReconnectAttempts == 5
initialReconnectDelay == 1000
\* reconnectDelay *= 1.5 is exact in 1/32 ms for maxReconnectAttempts
\* multiplications.
DelayScale == 32

ConnectionInit ==
    /\ connId = 0
    /\ uplink = <<>>
    /\ wire = <<>>
    /\ clast = [op |-> "init"]

\* The periodic tasks are not followed: no timer is due and no session is
\* awaited.
ProbeIdle ==
    schedule = [pingDue |-> 0, sweepDue |-> 0, connectAt |-> 0, roundTrip |-> 0]

\* No traffic: this.vehicles is empty.
TrafficIdle ==
    /\ actor = [state |-> "none"]
    /\ moves = 0
    /\ tlast = [op |-> "init"]

\* The WebSocketConnection as its constructor leaves it, connect() not yet
\* called.
ReconnectIdle ==
    /\ webSocket = "none"
    /\ isConnected = FALSE
    /\ reconnectAttempts = 0
    /\ reconnectDelay = initialReconnectDelay * DelayScale
    /\ status = "disconnected"
    /\ timer = [pending |-> FALSE, delay |-> 0]
    /\ waits = <<>>
    /\ connectCalls = 0
    /\ opens = 0
    /\ rlast = [op |-> "new", attemptsBefore |-> 0, waitsBefore |-> 0]

\* No remote player is shown yet.
RemoteIdle ==
    /\ otherPlayers = <<>>
    /\ remoteVehicle = [hasTarget |-> FALSE, hasCurrent |-> FALSE]
    /\ clock = 0
    /\ ilast = [op |-> "init"]
    /\ synced = FALSE

ClientIdle ==
    VehicleInit /\ ConnectionInit /\ TrafficIdle /\ ReconnectIdle /\ RemoteIdle
        /\ ReplayInit /\ ProbeIdle

\* The vehicle on its own: local updates and reconciliation records.
SpecClientInit == ServerInit /\ ClientIdle
SpecClientNext ==
    \/ VehicleUpdate(KeyChoices, DeltaTimes)
          /\ UNCHANGED <<serverVars, connVars, trafficVars, reconnectVars, remoteVars, replayVars, probeVars>>
    \/ Reconcile /\ UNCHANGED <<serverVars, connVars, trafficVars, reconnectVars, remoteVars, replayVars, probeVars>>
SpecClient == SpecClientInit /\ [][SpecClientNext]_vars

clientSide == <<vehicleVars, connVars, trafficVars, reconnectVars, remoteVars, replayVars, probeVars>>

\* The two update functions side by side.
SpecReplayInit == ServerInit /\ ClientIdle
SpecReplayNext ==
    \/ ReplayStep
          /\ UNCHANGED <<serverVars, vehicleVars, connVars, trafficVars, reconnectVars,
                         remoteVars, probeVars>>
SpecReplay == SpecReplayInit /\ [][SpecReplayNext]_vars

SpecServerInit == ServerInit /\ ClientIdle
\* The session registry: connections, closes, the periodic tasks and the
\* messages that only refresh a session.
SpecServerNext ==
    \/ OnConnection(NumSockets) /\ UNCHANGED clientSide
    \/ OnClose /\ UNCHANGED clientSide
    \/ TimeoutSweep /\ UNCHANGED clientSide
    \/ PingAll /\ UNCHANGED clientSide
    \/ PeriodicPlayerList /\ UNCHANGED clientSide
    \/ Tick /\ UNCHANGED clientSide
    \/ HandlePong /\ UNCHANGED clientSide
    \/ HandleChat /\ UNCHANGED clientSide
    \/ HandleMessage /\ UNCHANGED clientSide
SpecServer == SpecServerInit /\ [][SpecServerNext]_vars

\* The validator: position messages from the sessions of a server that is
\* never full, with the closes and the sweep that can overlap them.
SpecValidatorNext ==
    \/ OnConnection(MAX_PLAYERS) /\ UNCHANGED clientSide
    \/ OnClose /\ UNCHANGED clientSide
    \/ TimeoutSweep /\ UNCHANGED clientSide
    \/ Tick /\ UNCHANGED clientSide
    \/ HandlePosition /\ UNCHANGED clientSide
SpecValidator == SpecServerInit /\ [][SpecValidatorNext]_vars

\* The 'position' case on messages with defects, from the sessions of a
\* server that is never full.
SpecSanitizerNext ==
    \/ OnConnection(MAX_PLAYERS) /\ UNCHANGED clientSide
    \/ HandleDefective /\ UNCHANGED clientSide
SpecSanitizer == SpecServerInit /\ [][SpecSanitizerNext]_vars

\* Sessions that close while their messages are still handled: position
\* messages of the open sessions, player lists, and messages that are
\* handled after their session's close.
SpecLateNext ==
    \/ OnConnection(MAX_PLAYERS) /\ UNCHANGED clientSide
    \/ OnClose /\ UNCHANGED clientSide
    \/ HandlePosition /\ UNCHANGED clientSide
    \/ PeriodicPlayerList /\ UNCHANGED clientSide
    \/ LateMessage /\ UNCHANGED clientSide
SpecLate == SpecServerInit /\ [][SpecLateNext]_vars

---------------------------------------------------------------------------
(* Client: the remote players.  OtherPlayersManager keeps the players the  *)
(* client shows and moves their meshes every frame; Vehicle has its own    *)
(* interpolation for a vehicle that shows a remote player.  Positions are  *)
(* in thousandths of a unit, headings in thousandths of a radian, times in *)
(* ms and interpolation progress in thousandths.  The height of a player   *)
(* is carried along unchanged and left out.                                *)

\* Math.PI in thousandths of a radian.
PiMilli == 3142

\* addPlayer(id, position, rotation): "Skip if player already exists";
\* otherwise the mesh is put at the position and the player is stored.
addPlayer(pl, id, entry, t) ==
    IF id \in DOMAIN pl THEN pl
    ELSE (id :> [x |-> entry.x, z |-> entry.z, rotation |-> entry.rotation,
                 speed |-> 0, lastUpdate |-> t, hasPrevious |-> FALSE,
                 meshX |-> entry.x, meshZ |-> entry.z,
                 meshRotation |-> entry.rotation]) @@ pl

\* removePlayer(id): a player has a mesh from addPlayer on, so both maps
\* lose the id.
removePlayer(pl, id) == [k \in DOMAIN pl \ {id} |-> pl[k]]

\* updatePlayerPosition(id, position, rotation, speed): an unknown player is
\* added; a known one gets the new target, and previousPosition is set.
updatePlayerPosition(pl, id, entry, t) ==
    IF id \notin DOMAIN pl THEN addPlayer(pl, id, entry, t)
    ELSE [pl EXCEPT ![id] = [@ EXCEPT !.x = entry.x, !.z = entry.z,
                                      !.rotation = entry.rotation,
                                      !.speed = entry.speed,
                                      !.lastUpdate = t,
                                      !.hasPrevious = TRUE]]

\* The ids of a list of entries.
idsOf(list) == {list[i].id : i \in 1..Len(list)}

\* "Update or add players from the list", entry by entry.
RECURSIVE updateOrAdd(_, _, _)
updateOrAdd(pl, list, t) ==
    IF list = <<>> THEN pl
    ELSE LET player == Head(list)
         IN  updateOrAdd(IF player.id \in DOMAIN pl
                         THEN updatePlayerPosition(pl, player.id, player, t)
                         ELSE addPlayer(pl, player.id, player, t),
                         Tail(list), t)

\* Mutant: the list only adds and updates; nobody is removed.
updatePlayerListAddOnly(pl, list, t) == updateOrAdd(pl, list, t)

\* updatePlayerList(playerList): "Remove players that are no longer in the
\* list", then update or add those in it.
updatePlayerList(pl, list, t) ==
    LET currentPlayerIds == idsOf(list)
        kept == [k \in {j \in DOMAIN pl : j \in currentPlayerIds} |-> pl[k]]
    IN  updateOrAdd(kept, list, t)

\* The player list handler of client/index.js: "Filter out the current
\* player from the list".
playerListHandler(pl, list, clientId, t) ==
    updatePlayerList(pl, SelectSeq(list, LAMBDA player : player.id # clientId), t)

\* The player movement handler: "Skip if it's the current player".  The
\* sequence, the timestamp and the interpolation window that
\* handlePlayerPositionMessage passes on are not among its parameters.
playerMoveHandler(pl, message, clientId, t) ==
    IF message.id = clientId THEN pl
    ELSE updatePlayerPosition(pl, message.id, message, t)

\* The player leave handler.
playerLeaveHandler(pl, id, clientId) ==
    IF id = clientId THEN pl ELSE removePlayer(pl, id)

\* OtherPlayersManager.update: Math.min(timeSinceUpdate / 100, 1).
interpolationFactor(t, lastUpdate) == Min(((t - lastUpdate) * 1000) \div 100, 1000)

\* OtherPlayersManager.update (and TrafficManager.update, which has the same
\* lines): the difference of the headings, corrected by one turn at most.
rotationDiff(target, current) ==
    LET d == target - current
        d1 == IF d > PiMilli THEN d - 2 * PiMilli ELSE d
    IN  IF d1 < -PiMilli THEN d1 + 2 * PiMilli ELSE d1

\* value * factor with the factor in thousandths.
scaled(value, factor) == (value * factor) \div 1000

\* OtherPlayersManager.update for one player at time t.
updateMesh(player, t) ==
    LET factor == interpolationFactor(t, player.lastUpdate)
    IN  IF player.hasPrevious
        THEN [player EXCEPT
                !.meshX = @ + scaled(player.x - @, factor),
                !.meshZ = @ + scaled(player.z - @, factor),
                !.meshRotation = @ + scaled(rotationDiff(player.rotation, @), factor)]
        ELSE [player EXCEPT !.meshX = player.x, !.meshZ = player.z,
                            !.meshRotation = player.rotation]

\* OtherPlayersManager.update(deltaTime): every player's mesh.
update(pl, t) == [id \in DOMAIN pl |-> updateMesh(pl[id], t)]

\* Vehicle.updateOtherPlayerPosition: the target is stored with its window;
\* "If this is the first update, set current state to target state".
updateOtherPlayerPosition(rv, message) ==
    LET targetState == [x |-> message.x, z |-> message.z,
                        rotation |-> message.rotation,
                        startTime |-> message.startTime,
                        endTime |-> message.endTime]
    IN  [hasTarget |-> TRUE, hasCurrent |-> TRUE, targetState |-> targetState,
         currentState |-> IF rv.hasCurrent THEN rv.currentState
                          ELSE [x |-> targetState.x, z |-> targetState.z,
                                rotation |-> targetState.rotation]]

\* Vehicle.updateInterpolation: (now - startTime) / (endTime - startTime).
interpolationProgress(t, targetState) ==
    ((t - targetState.startTime) * 1000) \div
        (targetState.endTime - targetState.startTime)

\* Vehicle.updateInterpolation: the difference of the headings, corrected
\* turn by turn ("while").
RECURSIVE shortestRotationDiff(_)
shortestRotationDiff(d) ==
    IF d > PiMilli THEN shortestRotationDiff(d - 2 * PiMilli)
    ELSE IF d < -PiMilli THEN shortestRotationDiff(d + 2 * PiMilli)
    ELSE d

\* Vehicle.updateInterpolation(deltaTime) at time t.
updateInterpolation(rv, t) ==
    IF ~rv.hasTarget \/ ~rv.hasCurrent THEN rv
    ELSE LET target == rv.targetState
             current == rv.currentState
             progress == interpolationProgress(t, target)
         IN  IF progress >= 1000
             THEN [rv EXCEPT !.currentState =
                      [x |-> target.x, z |-> target.z, rotation |-> target.rotation]]
             ELSE [rv EXCEPT !.currentState =
                      [x |-> current.x + scaled(target.x - current.x, progress),
                       z |-> current.z + scaled(target.z - current.z, progress),
                       rotation |-> current.rotation +
                           scaled(shortestRotationDiff(target.rotation - current.rotation),
                                  progress)]]

---------------------------------------------------------------------------
(* One client and the server: WebSocketConnection (client/network/         *)
(* connection.js) and the game loop of client/index.js on socket 1.        *)

\* The socket of the one client.
TheSocket == 1

\* Frame times of the game loop: a frame after the tab was in the
\* background for two seconds.
FrameDeltaTimes == {2000}

\* The driver holds the accelerator or the brake.
FrameKeys == { Keys(TRUE, FALSE, FALSE, FALSE), Keys(FALSE, TRUE, FALSE, FALSE) }

\* this.connected, true between onOpen and onClose.
connected == readyState[TheSocket] = "OPEN"

\* sendPosition(networkState): the position message; every field of the
\* vehicle's network state is present, so no fallback applies.
positionMessage(networkState) == [type |-> "position"] @@ networkState

\* The server accepts the client's connection and its first messages go on
\* the wire.
NetConnect ==
    /\ OnConnection(TheSocket)
    /\ wire' = wire \o sent'[TheSocket]
    /\ UNCHANGED <<vehicleVars, connId, uplink, clast>>

\* gameLoop: one frame updates the vehicle and then, when connected and the
\* position interval has passed (due), sends the vehicle's network state.
NetFrame ==
    \E due \in BOOLEAN :
        /\ VehicleUpdate(FrameKeys, FrameDeltaTimes)
        /\ uplink' = IF connected /\ due
                     THEN Append(uplink,
                                 positionMessage(networkStateOf(vstate', sequence')))
                     ELSE uplink
        /\ UNCHANGED <<serverVars, connId, wire, clast>>

\* ws.on('message') of the server for the client's next message.
NetServerMessage ==
    /\ uplink # <<>>
    /\ LET message == Head(uplink)
       IN  IF message.type = "position"
           THEN \E elapsed \in HandlerElapsedMs :
                    handlePosition(TheSocket, message, elapsed)
           ELSE handlePong(TheSocket, message.timestamp)
    /\ uplink' = Tail(uplink)
    /\ wire' = wire \o sent'[TheSocket]
    /\ UNCHANGED <<msgCount, vehicleVars, connId, clast>>

\* handleServerReconciliationMessage: "If it's not for this client, ignore".
forThisClient(message, id) == "id" \in DOMAIN message /\ message.id = id

\* The state argument of the reconciliation callback.
stateOf(message) ==
    [x |-> message.x, y |-> message.y, z |-> message.z,
     rotation |-> message.rotation, speed |-> message.speed]

\* The ids of the sessions in the registry.
registryIds == {clients[w].id : w \in DOMAIN clients}

\* Whether a playerList was sent after the registry last changed: it names
\* the registry, and nothing the server sent after it tells of a change (a
\* session that joins is announced by a playerList, one that leaves by a
\* playerDisconnected).
sentSinceLastChange(message, later) ==
    /\ idsOf(message.players) = registryIds
    /\ \A i \in 1..Len(later) :
          later[i].type \notin {"playerList", "playerDisconnected"}

\* What onMessage's switch does with a type: the case that handles it, or
\* the default ("Unknown message type").
handlerOf(type) ==
    IF type \in {"welcome", "ping", "playerList", "playerPosition",
                 "playerDisconnected", "serverReconciliation"}
    THEN type
    ELSE IF type = "chatMessage" THEN "none"
    ELSE "unknown"

\* What onMessage did, for the record: the case taken, the ids a playerList
\* listed and the players it removed.
messageEvent(message, applied, removed) ==
    [op |-> "message", type |-> message.type,
     sequence |-> IF message.type = "serverReconciliation"
                  THEN message.sequence ELSE 0,
     applied |-> applied,
     handler |-> handlerOf(message.type),
     listed |-> IF message.type = "playerList" THEN idsOf(message.players) ELSE {},
     removed |-> removed]

\* onMessage of the client for the next message on the wire.
NetClientMessage ==
    /\ wire # <<>>
    /\ wire' = Tail(wire)
    /\ LET message == Head(wire)
       IN  IF message.type = "welcome"
           THEN /\ connId' = message.id
                /\ clast' = messageEvent(message, FALSE, {})
                /\ UNCHANGED <<uplink, vehicleVars, otherPlayers, synced>>
           ELSE IF message.type = "ping"
           THEN /\ uplink' = IF connected
                             THEN Append(uplink, [type |-> "pong",
                                                  timestamp |-> message.timestamp])
                             ELSE uplink
                /\ clast' = messageEvent(message, FALSE, {})
                /\ UNCHANGED <<connId, vehicleVars, otherPlayers, synced>>
           ELSE IF message.type = "playerList"
           THEN /\ otherPlayers' = playerListHandler(otherPlayers, message.players,
                                                     connId, clock)
                /\ synced' = (synced \/ sentSinceLastChange(message, Tail(wire)))
                /\ clast' = messageEvent(message, FALSE,
                                DOMAIN otherPlayers \ DOMAIN otherPlayers')
                /\ UNCHANGED <<connId, uplink, vehicleVars>>
           ELSE IF message.type = "playerPosition"
           THEN /\ otherPlayers' = playerMoveHandler(otherPlayers, message,
                                                     connId, clock)
                /\ clast' = messageEvent(message, FALSE, {})
                /\ UNCHANGED <<connId, uplink, vehicleVars, synced>>
           ELSE IF message.type = "playerDisconnected"
           THEN /\ otherPlayers' = playerLeaveHandler(otherPlayers, message.id, connId)
                /\ clast' = messageEvent(message, FALSE,
                                DOMAIN otherPlayers \ DOMAIN otherPlayers')
                /\ UNCHANGED <<connId, uplink, vehicleVars, synced>>
           ELSE IF message.type = "serverReconciliation"
           THEN IF forThisClient(message, connId)
                THEN /\ applyServerReconciliation(stateOf(message), message.sequence)
                     /\ clast' = messageEvent(message, TRUE, {})
                     /\ UNCHANGED <<connId, uplink, otherPlayers, synced>>
                ELSE /\ clast' = messageEvent(message, FALSE, {})
                     /\ UNCHANGED <<connId, uplink, vehicleVars, otherPlayers, synced>>
           ELSE /\ clast' = messageEvent(message, FALSE, {})
                /\ UNCHANGED <<connId, uplink, vehicleVars, otherPlayers, synced>>
    /\ UNCHANGED <<serverVars, remoteVehicle, clock, ilast, replayVars, probeVars>>

SpecNetInit == ServerInit /\ ClientIdle
SpecNetNext ==
    \/ NetConnect /\ UNCHANGED <<trafficVars, reconnectVars, remoteVars, replayVars, probeVars>>
    \/ NetFrame /\ UNCHANGED <<trafficVars, reconnectVars, remoteVars, replayVars, probeVars>>
    \/ NetServerMessage /\ UNCHANGED <<trafficVars, reconnectVars, remoteVars, replayVars, probeVars>>
    \/ NetClientMessage /\ UNCHANGED <<trafficVars, reconnectVars>>
SpecNet == SpecNetInit /\ [][SpecNetNext]_vars

---------------------------------------------------------------------------
(* One client's view of the sessions: the client on socket 1 while other   *)
(* sessions join, report positions and leave, over a transport that keeps  *)
(* the order of the messages and may drop some.                            *)

\* Messages in flight to the client at one time.
MaxWire == 3

\* What a step of the server means for the client: what the server sent to
\* its socket goes on the wire, and a change of the registry ends the
\* agreement of the view with it.
toTheClient ==
    /\ wire' = wire \o sent'[TheSocket]
    /\ Len(wire') <= MaxWire
    /\ synced' = (synced /\ registryIds' = registryIds)
    /\ UNCHANGED <<vehicleVars, connId, uplink, clast, trafficVars, reconnectVars,
                   otherPlayers, remoteVehicle, clock, ilast, replayVars, probeVars>>

\* The position a player reports here is the one at rest, which the
\* validator accepts and the server passes on: who the client tracks depends
\* on whose playerPosition arrives, and the claims about what a position
\* carries are settled under the server's own specification.
ViewPositions == {raw \in PositionMessages : raw.sequence = Num(1)}

\* The client's own connection is accepted.
ViewConnect == OnConnection(TheSocket) /\ toTheClient

\* Another session connects, is accepted or turned away.
ViewJoin == OnConnection(NumSockets) /\ last'.ws # TheSocket /\ toTheClient

\* Another session's socket closes.
ViewLeave == OnClose /\ last'.ws # TheSocket /\ toTheClient

\* Another session reports its position.
ViewPosition ==
    \E ws \in Sockets \ {TheSocket}, raw \in ViewPositions :
        /\ msgCount < MaxMessages
        /\ handlePosition(ws, raw, 0)
        /\ msgCount' = msgCount + 1
        /\ toTheClient

\* The periodic player list.
ViewPlayerList == PeriodicPlayerList /\ toTheClient

\* The transport drops the next message about the other players.
ViewLose ==
    /\ wire # <<>>
    /\ Head(wire).type \in {"playerList", "playerPosition", "playerDisconnected"}
    /\ wire' = Tail(wire)
    /\ clast' = [op |-> "lost", type |-> Head(wire).type]
    /\ UNCHANGED <<serverVars, vehicleVars, connId, uplink, trafficVars,
                   reconnectVars, remoteVars, replayVars, probeVars>>

SpecViewInit == ServerInit /\ ClientIdle
SpecViewNext ==
    \/ ViewConnect
    \/ ViewJoin
    \/ ViewLeave
    \/ ViewPosition
    \/ ViewPlayerList
    \/ ViewLose
    \/ NetClientMessage /\ UNCHANGED <<trafficVars, reconnectVars>>
SpecView == SpecViewInit /\ [][SpecViewNext]_vars

---------------------------------------------------------------------------
(* The remote players between position messages and frames: one remote     *)
(* player, whose playerPosition messages reach OtherPlayersManager through *)
(* the movement handler, and a Vehicle given the same messages through     *)
(* updateOtherPlayerPosition.                                              *)

\* The id of the remote player.
RemoteId == 2

\* Date.now() of the client when the run starts and when it ends; the
\* timestamps of the messages are the sender's and lie on both sides of the
\* client's clock.
ClockStarts == {990, 1040}
ClockEnd == 1100
RemoteTimestamps == {1000, 1050}

\* Frame times of the game loop.
FrameStepsMs == {20, 60}

\* Positions and headings the remote player reports; a heading is not
\* wrapped and grows with every turn the player makes.
RemoteStates ==
    { [x |-> 0, rotation |-> 0],
      [x |-> 10000, rotation |-> 2000],
      [x |-> 10000, rotation |-> 10000] }

\* The playerPosition messages of the remote player, as the server builds
\* them from the stored state.
RemoteMessages ==
    { playerPositionMessage(
          [id |-> RemoteId,
           state |-> [x |-> st.x, y |-> 0, z |-> 0, rotation |-> st.rotation,
                      speed |-> 0, sequence |-> 1, timestamp |-> ts]]) :
        st \in RemoteStates, ts \in RemoteTimestamps }

\* handlePlayerPositionMessage for a message of the remote player.
InterpMessage ==
    \E message \in RemoteMessages :
        /\ otherPlayers' = playerMoveHandler(otherPlayers, message, connId, clock)
        /\ remoteVehicle' = updateOtherPlayerPosition(remoteVehicle, message)
        /\ ilast' = [op |-> "message"]
        /\ UNCHANGED <<clock, synced>>

\* Two headings that point the same way: whole turns apart.
sameHeading(a, b) == (a - b) % (2 * PiMilli) = 0

\* What a frame did to the remote player: the factor and the heading
\* difference OtherPlayersManager.update scaled, the progress and the heading
\* difference Vehicle.updateInterpolation scaled, and where both left the
\* player.
frameEvent(pl, rv, t) ==
    LET shown == RemoteId \in DOMAIN pl
        player == pl[RemoteId]
        after == updateMesh(player, t)
        active == rv.hasTarget /\ rv.hasCurrent
        rvAfter == updateInterpolation(rv, t)
    IN  [op |-> "frame",
         shown |-> shown,
         interpolated |-> shown /\ player.hasPrevious,
         factor |-> IF shown THEN interpolationFactor(t, player.lastUpdate) ELSE 0,
         diff |-> IF shown THEN rotationDiff(player.rotation, player.meshRotation)
                  ELSE 0,
         atTarget |-> shown /\ after.meshX = player.x /\ after.meshZ = player.z
                            /\ sameHeading(after.meshRotation, player.rotation),
         active |-> active,
         progress |-> IF active THEN interpolationProgress(t, rv.targetState) ELSE 0,
         vehicleDiff |-> IF active
                         THEN shortestRotationDiff(rv.targetState.rotation
                                                   - rv.currentState.rotation)
                         ELSE 0,
         vehicleAtTarget |-> active
                             /\ rvAfter.currentState.x = rv.targetState.x
                             /\ rvAfter.currentState.z = rv.targetState.z
                             /\ sameHeading(rvAfter.currentState.rotation,
                                            rv.targetState.rotation),
         windowStart |-> IF active THEN rv.targetState.startTime ELSE 0,
         windowEnd |-> IF active THEN rv.targetState.endTime ELSE 0,
         t |-> t]

\* gameLoop: a frame later, otherPlayers.update moves the meshes and the
\* Vehicle interpolates.
InterpFrame ==
    \E dtMs \in FrameStepsMs :
        /\ clock + dtMs <= ClockEnd
        /\ clock' = clock + dtMs
        /\ otherPlayers' = update(otherPlayers, clock')
        /\ remoteVehicle' = updateInterpolation(remoteVehicle, clock')
        /\ ilast' = frameEvent(otherPlayers, remoteVehicle, clock')
        /\ UNCHANGED synced

InterpInit ==
    /\ otherPlayers = <<>>
    /\ remoteVehicle = [hasTarget |-> FALSE, hasCurrent |-> FALSE]
    /\ clock \in ClockStarts
    /\ ilast = [op |-> "init"]
    /\ synced = FALSE

SpecInterpInit ==
    ServerInit /\ VehicleInit /\ ConnectionInit /\ TrafficIdle /\ ReconnectIdle
        /\ ReplayInit /\ ProbeIdle /\ InterpInit
SpecInterpNext ==
    \/ InterpMessage
          /\ UNCHANGED <<serverVars, vehicleVars, connVars, trafficVars, reconnectVars,
                         replayVars, probeVars>>
    \/ InterpFrame
          /\ UNCHANGED <<serverVars, vehicleVars, connVars, trafficVars, reconnectVars,
                         replayVars, probeVars>>
SpecInterp == SpecInterpInit /\ [][SpecInterpNext]_vars

---------------------------------------------------------------------------
(* Server: Traffic (server/game-state/traffic.js), one actor.              *)
(*                                                                         *)
(* Positions are in thousandths of a unit, times in ms, and headings in     *)
(* thousandths of a quarter turn: pi/2 is 1000 and 2*pi is 4000.            *)

\* Position changes by a valid move in one run.
MaxMoves == 2

\* this.roadGrid, the counters' limits of handleMovingState and the stop
\* time of handleStoppedState.
citySize == 500
blockSize == 20
roadWidth == 10
offRoadLimit == 5
collisionLimit == 10
stopMinMs == 3000
stopRangeMs == 2000
QuarterTurn == 1000
blockAndRoad == blockSize + roadWidth
halfSize == citySize \div 2

\* this.districts.
Districts ==
    { [x |-> -100, z |-> -100, size |-> 100],
      [x |-> 100, z |-> -100, size |-> 150],
      [x |-> 100, z |-> 100, size |-> 120],
      [x |-> -100, z |-> 150, size |-> 80] }

\* The % of JavaScript: the remainder has the sign of the dividend.
JsRem(a, b) == IF a >= 0 THEN a % b ELSE -((-a) % b)

\* generateBuildingMap: the cell coordinates marked along one axis; the map
\* holds every pair of them.
BuildingCells ==
    { ((cx + bx) \div 5) * 5 :
        cx \in { -halfSize + blockAndRoad * i :
                   i \in 0..((citySize - 1) \div blockAndRoad) },
        bx \in 0..(blockSize - 1) }

isOnRoad(position) ==
    \/ JsRem(position.x + halfSize * 1000, blockAndRoad * 1000) < roadWidth * 1000
    \/ JsRem(position.z + halfSize * 1000, blockAndRoad * 1000) < roadWidth * 1000

isInsideBuilding(position) ==
    IF isOnRoad(position) THEN FALSE
    ELSE /\ (position.x \div 5000) * 5 \in BuildingCells
         /\ (position.z \div 5000) * 5 \in BuildingCells

isAtIntersection(position) ==
    /\ JsRem(position.x + halfSize * 1000, blockAndRoad * 1000) < roadWidth * 1000
    /\ JsRem(position.z + halfSize * 1000, blockAndRoad * 1000) < roadWidth * 1000

\* Mutant: only the east edge is watched.
isOutOfBoundsEastOnly(position) == position.x > halfSize * 1000

isOutOfBounds(position) ==
    \/ position.x < -(halfSize * 1000) \/ position.x > halfSize * 1000
    \/ position.z < -(halfSize * 1000) \/ position.z > halfSize * 1000

\* The test of handleMovingState on the new position.
validPosition(position) == isOnRoad(position) /\ ~isInsideBuilding(position)

\* Math.cos and Math.sin of a heading, in thousandths: exact on the four
\* cardinal headings, the approximation of SinMilli elsewhere.
SinHeading(h) ==
    LET q == h % (4 * QuarterTurn)
    IN  IF q = 0 \/ q = 2 * QuarterTurn THEN 0
        ELSE IF q = QuarterTurn THEN 1000
        ELSE IF q = 3 * QuarterTurn THEN -1000
        ELSE SinMilli((q * 1571) \div QuarterTurn)
CosHeading(h) == SinHeading(h + QuarterTurn)


\* Math.random() in getRandomRoadPosition, resetVehiclePosition and
\* createTrafficVehicle: the district, the road's orientation, the road (the
\* first or the last of the district), the place along it (in units from the
\* district's edge), the cardinal direction and the next turn.  The turn
\* direction drawn here is overwritten before handleTurningState reads it, so
\* one value stands for both.  The distance to the next turn is drawn at the
\* two ends of [100, 300) when handleMovingState resamples it, and at the
\* lower end, the one a run of the model can use up, for a placement.
roadCount(district) == district.size \div blockAndRoad
OffsetChoices(district) == {0, district.size - 1}
TurnDirections == {1, -1}
TurnDistances == {100000, 299999}
PlacementTurnDistances == {100000}
PlacementChoices ==
    UNION { { [district |-> d, isHorizontal |-> h, roadIndex |-> r,
               offset |-> o, direction |-> c, turnDistance |-> td,
               turnDirection |-> t] :
                h \in BOOLEAN, r \in 0..5, o \in OffsetChoices(d),
                c \in 0..3, td \in PlacementTurnDistances, t \in {1} } :
            d \in Districts }
Placements ==
    { c \in PlacementChoices : c.roadIndex \in {0, roadCount(c.district)} }

\* The speed of the actor: maxSpeed * (0.6 + Math.random() * 0.4) of a
\* template, in thousandths of a unit per second.
TrafficSpeeds == {10000}

\* Seconds between two runs of update(), in ms: the timer of startUpdateLoop
\* fires late when the server is busy (0.4 s), and after ten seconds when
\* the process was held up.
TrafficDeltaTimes == {400, 10000}

getRandomRoadPosition(c) ==
    LET district == c.district
        minX == district.x - district.size \div 2
        minZ == district.z - district.size \div 2
        road == c.roadIndex * blockAndRoad + roadWidth \div 2
    IN  IF c.isHorizontal
        THEN [x |-> (minX + c.offset) * 1000, z |-> (minZ + road) * 1000]
        ELSE [x |-> (minX + road) * 1000, z |-> (minZ + c.offset) * 1000]

\* createTrafficVehicle, for the fields update() reads.
createTrafficVehicle(c, speed) ==
    [position |-> getRandomRoadPosition(c),
     rotation |-> c.direction * QuarterTurn,
     speed |-> speed,
     state |-> "moving",
     stateTime |-> 0,
     direction |-> 1,
     nextTurn |-> [distance |-> c.turnDistance, direction |-> c.turnDirection],
     collisionCount |-> 0,
     offRoadCount |-> 0]

resetVehiclePosition(vehicle, c) ==
    [vehicle EXCEPT
        !.position = getRandomRoadPosition(c),
        !.state = "moving",
        !.stateTime = 0,
        !.rotation = c.direction * QuarterTurn,
        !.direction = 1,
        !.nextTurn = [distance |-> c.turnDistance, direction |-> c.turnDirection],
        !.collisionCount = 0,
        !.offRoadCount = 0]

\* "Keep rotation between 0 and 2*PI".
wrapRotation(r) == r % (4 * QuarterTurn)

\* Mutant: the turn ends without rounding the heading.
keepRotation(r) == r % (4 * QuarterTurn)

\* Math.round(rotation / (PI/2)) * (PI/2), then between 0 and 2*PI.
roundRotation(r) ==
    wrapRotation(((r + QuarterTurn \div 2) \div QuarterTurn) * QuarterTurn)

\* handleTurningState.
handleTurningState(vehicle, dtMs) ==
    IF vehicle.stateTime < 1000
    THEN [vehicle EXCEPT
             !.rotation = wrapRotation(@ + (QuarterTurn * dtMs *
                                            vehicle.nextTurn.direction) \div 1000)]
    ELSE [vehicle EXCEPT
             !.rotation = roundRotation(@),
             !.state = "moving",
             !.stateTime = 0]

\* Mutant: a stopped actor stays stopped.
handleStoppedStateForever(vehicle, stopMs) == vehicle

\* Mutant: the stop ends after two seconds.
handleStoppedStateEarly(vehicle, stopMs) ==
    IF vehicle.stateTime > stopMinMs - 1000
    THEN [vehicle EXCEPT !.state = "moving", !.stateTime = 0]
    ELSE vehicle

\* handleStoppedState, with 3 + Math.random() * 2 seconds as stopMs.
handleStoppedState(vehicle, stopMs) ==
    IF vehicle.stateTime > stopMs
    THEN [vehicle EXCEPT !.state = "moving", !.stateTime = 0]
    ELSE vehicle

\* The position handleMovingState tries.
newPosition(vehicle, dtMs) ==
    LET distance == (vehicle.speed * dtMs) \div 1000
    IN  [x |-> vehicle.position.x +
                 (CosHeading(vehicle.rotation) * distance * vehicle.direction) \div 1000,
         z |-> vehicle.position.z +
                 (SinHeading(vehicle.rotation) * distance * vehicle.direction) \div 1000]

\* Mutant: the reset comes one failure early.
countersExceededEarly(vehicle) ==
    vehicle.offRoadCount >= offRoadLimit \/ vehicle.collisionCount > collisionLimit

\* "If we've had multiple consecutive off-road or collision issues".
countersExceeded(vehicle) ==
    vehicle.offRoadCount > offRoadLimit \/ vehicle.collisionCount > collisionLimit


\* stateTime is compared with one second and with the stop time only; the
\* model stops counting it beyond both.
stateTimeHorizon == stopMinMs + stopRangeMs + 1000
StopTimes == {stopMinMs, stopMinMs + stopRangeMs - 1}

\* The observation counts consecutive failures (streak) up to here, and
\* notes whether an update since the last valid move, before this one, reset
\* the actor (resetInStreak).
streakHorizon == offRoadLimit + 2

\* What the observation of an update() run records; before is the actor
\* with its stateTime advanced, as the handlers of the states see it.
observation(before, failed, moved, reset) ==
    [op |-> "update",
     stateBefore |-> before.state,
     rotationBefore |-> before.rotation,
     failed |-> failed,
     moved |-> moved,
     reset |-> reset,
     offRoadAtTest |-> IF failed THEN before.offRoadCount + 1 ELSE 0,
     collisionAtTest |-> IF failed THEN before.collisionCount + 1 ELSE 0,
     dwell |-> IF before.state = "stopped" THEN before.stateTime ELSE 0,
     streak |-> IF failed THEN Min(tlast.streak + 1, streakHorizon)
                ELSE IF moved THEN 0 ELSE tlast.streak,
     resetInStreak |-> IF moved \/ tlast.moved THEN FALSE
                       ELSE tlast.resetInStreak \/ tlast.reset # "none"]

\* The end of updateVehicle: "Check if vehicle has gone off the map".
finishUpdate(places, before, vehicle, failed, moved, reset) ==
    IF isOutOfBounds(vehicle.position)
    THEN \E c \in places :
            /\ actor' = resetVehiclePosition(vehicle, c)
            /\ tlast' = observation(before, failed, moved, "bounds")
    ELSE /\ actor' = vehicle
         /\ tlast' = observation(before, failed, moved, reset)

\* handleMovingState when the new position is valid.
moveTo(vehicle, position, dtMs, turnDistance, turnDirection, stop) ==
    LET distance == (vehicle.speed * dtMs) \div 1000
        v1 == [vehicle EXCEPT !.position = position,
                              !.offRoadCount = 0,
                              !.nextTurn.distance = @ - distance]
        v2 == IF v1.nextTurn.distance <= 0
              THEN [v1 EXCEPT !.state = "turning", !.stateTime = 0,
                              !.nextTurn = [distance |-> turnDistance,
                                            direction |-> turnDirection]]
              ELSE v1
    IN  IF isAtIntersection(v2.position) /\ stop
        THEN [v2 EXCEPT !.state = "stopped", !.stateTime = 0]
        ELSE v2

\* Mutant: a failure counts as off-road only.
countFailureOffRoadOnly(vehicle) == [vehicle EXCEPT !.offRoadCount = @ + 1]

\* handleMovingState when the new position is not valid: the counters.
countFailure(vehicle) ==
    [vehicle EXCEPT !.collisionCount = @ + 1, !.offRoadCount = @ + 1]

\* Traffic.updateVehicle(vehicle, deltaTime) for the actor, deltaTime in ms;
\* places are the placements a reset draws from.
trafficUpdateVehicle(places, dtMs) ==
    LET vehicle == [actor EXCEPT
                       !.stateTime = Min(@ + dtMs, stateTimeHorizon)]
    IN  IF vehicle.state = "moving"
        THEN LET position == newPosition(vehicle, dtMs)
             IN  IF validPosition(position)
                 THEN /\ moves < MaxMoves
                      /\ moves' = moves + 1
                      /\ \E td \in TurnDistances, t \in TurnDirections,
                            stop \in BOOLEAN :
                            finishUpdate(places, vehicle,
                                moveTo(vehicle, position, dtMs, td, t, stop),
                                FALSE, TRUE, "none")
                 ELSE /\ UNCHANGED moves
                      /\ LET counted == countFailure(vehicle)
                         IN  IF countersExceeded(counted)
                             THEN \E c \in places :
                                    finishUpdate(places, vehicle,
                                        resetVehiclePosition(counted, c),
                                        TRUE, FALSE, "counters")
                             ELSE \E t \in TurnDirections :
                                    finishUpdate(places, vehicle,
                                        [counted EXCEPT
                                            !.state = "turning",
                                            !.stateTime = 0,
                                            !.nextTurn.direction = t],
                                        TRUE, FALSE, "none")
        ELSE IF vehicle.state = "stopped"
        THEN /\ UNCHANGED moves
             /\ \E stopMs \in StopTimes :
                   finishUpdate(places, vehicle, handleStoppedState(vehicle, stopMs),
                                FALSE, FALSE, "none")
        ELSE /\ UNCHANGED moves
             /\ finishUpdate(places, vehicle, handleTurningState(vehicle, dtMs),
                             FALSE, FALSE, "none")

\* Traffic.update(): deltaTime is the time since the last run.
TrafficUpdate ==
    \E dtMs \in TrafficDeltaTimes : trafficUpdateVehicle(Placements, dtMs)

\* initialize(): the actor is created.
TrafficInit ==
    /\ \E c \in Placements, speed \in TrafficSpeeds :
          actor = createTrafficVehicle(c, speed)
    /\ moves = 0
    /\ tlast = [op |-> "create", stateBefore |-> "none", rotationBefore |-> 0,
                failed |-> FALSE, moved |-> FALSE, reset |-> "none",
                offRoadAtTest |-> 0, collisionAtTest |-> 0, dwell |-> 0,
                streak |-> 0,
                resetInStreak |-> FALSE]

SpecTrafficInit ==
    ServerInit /\ VehicleInit /\ ConnectionInit /\ ReconnectIdle /\ RemoteIdle
        /\ ReplayInit /\ ProbeIdle /\ TrafficInit
SpecTrafficNext ==
    \/ TrafficUpdate /\ UNCHANGED <<serverVars, vehicleVars, connVars, reconnectVars, remoteVars, replayVars, probeVars>>
SpecTraffic == SpecTrafficInit /\ [][SpecTrafficNext]_vars

---------------------------------------------------------------------------
(* The traffic feed: a Traffic constructed with the server's WebSocket     *)
(* server, as its constructor expects (server.js itself constructs none),  *)
(* and the one client.  update() moves the actor and broadcasts the        *)
(* traffic state; the client's onMessage takes the messages off the wire.  *)

\* The actor is created on the first road of the first district, at the
\* start of the road, in any of the four directions.
FeedPlacements ==
    { c \in Placements :
        /\ c.district = [x |-> -100, z |-> -100, size |-> 100]
        /\ c.isHorizontal
        /\ c.roadIndex = 0
        /\ c.offset = 0 }

\* The server clock up to which update() runs.
FeedHorizonMs == 1200

\* broadcastTrafficState: the entry of the actor; its id, type, color and
\* dimensions never change and are left out.
trafficData(vehicle) ==
    <<[position |-> vehicle.position, rotation |-> vehicle.rotation,
       state |-> vehicle.state]>>

trafficUpdateMessage(vehicle, t) ==
    [type |-> "trafficUpdate", vehicles |-> trafficData(vehicle), timestamp |-> t]

\* Traffic.update(): the actor is updated and the traffic state is
\* broadcast to all sessions.
FeedTick ==
    \E dtMs \in TrafficDeltaTimes :
        /\ now < FeedHorizonMs
        /\ now' = now + dtMs
        /\ trafficUpdateVehicle(Placements, dtMs)
        /\ sent' = broadcastToAll(NoSent, readyState,
                                  trafficUpdateMessage(actor', now'))
        /\ last' = [op |-> "traffic", ws |-> 0, info |-> [t |-> now']]
        /\ wire' = wire \o sent'[TheSocket]
        /\ Len(wire') <= MaxWire
        /\ UNCHANGED <<readyState, closeReason, clients, nextClientId,
                       connectionStats, idLog, disconnectedLog, msgCount>>
        /\ UNCHANGED <<vehicleVars, connId, uplink, clast, reconnectVars,
                       remoteVars, replayVars, probeVars>>

SpecFeedInit ==
    /\ ServerInit /\ VehicleInit /\ ConnectionInit /\ ReconnectIdle /\ RemoteIdle
    /\ ReplayInit /\ ProbeIdle
    /\ \E c \in FeedPlacements, speed \in TrafficSpeeds :
          actor = createTrafficVehicle(c, speed)
    /\ moves = 0
    /\ tlast = [op |-> "create", stateBefore |-> "none", rotationBefore |-> 0,
                failed |-> FALSE, moved |-> FALSE, reset |-> "none",
                offRoadAtTest |-> 0, collisionAtTest |-> 0, dwell |-> 0,
                streak |-> 0,
                resetInStreak |-> FALSE]
SpecFeedNext ==
    \/ ViewConnect
    \/ FeedTick
    \/ NetClientMessage /\ UNCHANGED <<trafficVars, reconnectVars>>
SpecFeed == SpecFeedInit /\ [][SpecFeedNext]_vars

\* The actor on its own, created and reset on the first road of the first
\* district.  The interval of startUpdateLoop keeps running update(): an
\* update that can run does run.
LiveUpdate ==
    \E dtMs \in TrafficDeltaTimes : trafficUpdateVehicle(FeedPlacements, dtMs)
SpecTrafficLiveNext ==
    \/ LiveUpdate /\ UNCHANGED <<serverVars, vehicleVars, connVars, reconnectVars, remoteVars, replayVars, probeVars>>
SpecTrafficLive ==
    SpecFeedInit /\ [][SpecTrafficLiveNext]_vars /\ WF_vars(SpecTrafficLiveNext)

---------------------------------------------------------------------------
(* The client's connection: connect, open, error, close and the reconnect  *)
(* timer (connection.js).  The socket of the browser reports an error      *)
(* before it closes; a closed socket raises no further event.              *)

\* Connections that open in one run.
MaxOpens == 2

\* Mutant: one more attempt is allowed.
attemptsLeftOneMore(attempts) == attempts <= maxReconnectAttempts

\* "if (this.reconnectAttempts < this.maxReconnectAttempts)".
attemptsLeft(attempts) == attempts < maxReconnectAttempts

\* "this.reconnectDelay *= 1.5".
nextDelay(delay) == (delay * 3) \div 2

NoTimer == [pending |-> FALSE, delay |-> 0]

\* What the observation of a connection event records.
reconnectEvent(op) ==
    [op |-> op, attemptsBefore |-> reconnectAttempts, waitsBefore |-> Len(waits)]

\* connect(): a new WebSocket, status "connecting".
connect ==
    /\ webSocket' = "connecting"
    /\ status' = "connecting"
    /\ connectCalls' = connectCalls + 1

\* index.js: connection.connect(), once, when the page has loaded.
Start ==
    /\ webSocket = "none"
    /\ connectCalls = 0
    /\ connect
    /\ rlast' = reconnectEvent("connect")
    /\ UNCHANGED <<isConnected, reconnectAttempts, reconnectDelay, timer, waits,
                   opens>>

\* onOpen().
onOpen ==
    /\ webSocket = "connecting"
    /\ opens < MaxOpens
    /\ webSocket' = "open"
    /\ isConnected' = TRUE
    /\ reconnectAttempts' = 0
    /\ reconnectDelay' = initialReconnectDelay * DelayScale
    /\ status' = "connected"
    /\ waits' = <<>>
    /\ opens' = opens + 1
    /\ rlast' = reconnectEvent("open")
    /\ UNCHANGED <<timer, connectCalls>>

\* onError: the status only; the socket goes on to close.
onError ==
    /\ webSocket \in {"connecting", "open"}
    /\ webSocket' = "failing"
    /\ status' = "error"
    /\ rlast' = reconnectEvent("error")
    /\ UNCHANGED <<isConnected, reconnectAttempts, reconnectDelay, timer, waits,
                   connectCalls, opens>>

\* onClose(event).
onClose ==
    /\ webSocket \in {"connecting", "open", "failing"}
    /\ webSocket' = "closed"
    /\ isConnected' = FALSE
    /\ IF attemptsLeft(reconnectAttempts)
       THEN /\ reconnectAttempts' = reconnectAttempts + 1
            /\ reconnectDelay' = nextDelay(reconnectDelay)
            /\ status' = "reconnecting"
            /\ timer' = [pending |-> TRUE, delay |-> nextDelay(reconnectDelay)]
            /\ waits' = Append(waits, nextDelay(reconnectDelay))
       ELSE /\ status' = "failed"
            /\ UNCHANGED <<reconnectAttempts, reconnectDelay, timer, waits>>
    /\ rlast' = reconnectEvent("close")
    /\ UNCHANGED <<connectCalls, opens>>

\* The callback of the setTimeout of onClose: connect().
ReconnectTimer ==
    /\ timer.pending
    /\ timer' = NoTimer
    /\ connect
    /\ rlast' = reconnectEvent("connect")
    /\ UNCHANGED <<isConnected, reconnectAttempts, reconnectDelay, waits, opens>>

notReconnect == <<serverVars, vehicleVars, connVars, trafficVars, remoteVars,
                  replayVars, probeVars>>

SpecReconnectInit == ServerInit /\ ClientIdle
SpecReconnectNext ==
    \/ Start /\ UNCHANGED notReconnect
    \/ onOpen /\ UNCHANGED notReconnect
    \/ onError /\ UNCHANGED notReconnect
    \/ onClose /\ UNCHANGED notReconnect
    \/ ReconnectTimer /\ UNCHANGED notReconnect
SpecReconnect == SpecReconnectInit /\ [][SpecReconnectNext]_vars

---------------------------------------------------------------------------
(* The periodic tasks and one idle session: the ping and sweep intervals   *)
(* of startPeriodicTasks (websocket.js) and a client that answers every    *)
(* ping and sends nothing else (handlePingMessage, connection.js).  Times  *)
(* are in ms.  A timer of Node fires when it is due or later, after what   *)
(* the event loop was busy with, and setInterval re-arms it from the time  *)
(* its callback ran; callbacks that are ready together run timers first,   *)
(* in the order they fell due, and then the messages that arrived.         *)

\* The periods of the two intervals.
PingInterval == 5000
SweepInterval == 10000

\* The run is followed up to here.
ProbeHorizonMs == 20000

\* Round trips of a ping and its pong: a client on the same host, and one
\* just inside the timeout.
RoundTrips == {1, TIMEOUT_DURATION - 1}

\* When the session connects, after the start of the server: at once, with
\* the first ping, and just before the first sweep.
ConnectTimes == {1, PingInterval, SweepInterval - 1}

\* How long after it is due a callback runs: at once, and after the event
\* loop was busy for 2 ms.
Lateness == {0, 2}

\* handlePingMessage(message): the pong the client sends back.
handlePingMessage(message) == [type |-> "pong", timestamp |-> message.timestamp]

\* The pongs for the pings among the messages out.
RECURSIVE pongsFor(_)
pongsFor(out) ==
    IF out = <<>> THEN <<>>
    ELSE IF Head(out).type = "ping"
    THEN <<handlePingMessage(Head(out))>> \o pongsFor(Tail(out))
    ELSE pongsFor(Tail(out))

\* What is ready to run at the time now.
pingReady == schedule.pingDue <= now
sweepReady == schedule.sweepDue <= now
connectReady == readyState[TheSocket] = "NONE" /\ schedule.connectAt <= now
pongArrival == Head(uplink).timestamp + schedule.roundTrip
pongReady == uplink # <<>> /\ pongArrival <= now

\* The time at which the next callback is due.
nextDue ==
    LET timers == Min(schedule.pingDue, schedule.sweepDue)
        arrival == IF readyState[TheSocket] = "NONE"
                   THEN Min(timers, schedule.connectAt)
                   ELSE timers
    IN  IF uplink # <<>> THEN Min(arrival, pongArrival) ELSE arrival

\* Nothing is ready: time passes until the next callback is due, and for as
\* long after that as the event loop is busy.
ProbeWait ==
    /\ ~pingReady /\ ~sweepReady /\ ~connectReady /\ ~pongReady
    /\ \E late \in Lateness :
          /\ nextDue + late <= ProbeHorizonMs
          /\ now' = nextDue + late
    /\ UNCHANGED <<readyState, closeReason, clients, nextClientId,
                   connectionStats, sent, last, idLog, disconnectedLog,
                   msgCount, uplink, schedule>>

\* The client connects; it answers the ping of the connection handler.
ProbeConnect ==
    /\ connectReady /\ ~pingReady /\ ~sweepReady
    /\ OnConnection(TheSocket)
    /\ uplink' = uplink \o pongsFor(sent'[TheSocket])
    /\ UNCHANGED schedule

\* The callback of the ping interval; the client answers the ping.
ProbePing ==
    /\ pingReady
    /\ sweepReady => schedule.pingDue <= schedule.sweepDue
    /\ PingAll
    /\ uplink' = uplink \o pongsFor(sent'[TheSocket])
    /\ schedule' = [schedule EXCEPT !.pingDue = now + PingInterval]

\* The callback of the sweep interval.
ProbeSweep ==
    /\ sweepReady
    /\ pingReady => schedule.sweepDue < schedule.pingDue
    /\ TimeoutSweep
    /\ schedule' = [schedule EXCEPT !.sweepDue = now + SweepInterval]
    /\ UNCHANGED uplink

\* A pong arrives: handleMessage, case 'pong'.
ProbePong ==
    /\ pongReady /\ ~pingReady /\ ~sweepReady
    /\ handlePong(TheSocket, Head(uplink).timestamp)
    /\ uplink' = Tail(uplink)
    /\ UNCHANGED <<msgCount, schedule>>

\* The server starts its intervals; the session connects at some time after
\* that and has some round trip.
SpecProbeInit ==
    /\ ServerInit /\ VehicleInit /\ ConnectionInit /\ TrafficIdle
    /\ ReconnectIdle /\ RemoteIdle /\ ReplayInit
    /\ \E c \in ConnectTimes, r \in RoundTrips :
          schedule = [pingDue |-> PingInterval, sweepDue |-> SweepInterval,
                      connectAt |-> c, roundTrip |-> r]
notProbe == <<vehicleVars, connId, wire, clast, trafficVars, reconnectVars,
              remoteVars, replayVars>>
SpecProbeNext ==
    \/ ProbeWait /\ UNCHANGED notProbe
    \/ ProbeConnect /\ UNCHANGED notProbe
    \/ ProbePing /\ UNCHANGED notProbe
    \/ ProbeSweep /\ UNCHANGED notProbe
    \/ ProbePong /\ UNCHANGED notProbe
SpecProbe == SpecProbeInit /\ [][SpecProbeNext]_vars

---------------------------------------------------------------------------
(* Claims about the vehicle (SpecClient).                                  *)

SequencesOf(queue) == [i \in 1..Len(queue) |-> queue[i].sequence]

\* C2: after applyServerReconciliation for sequence S the pending-input queue
\* holds no input whose sequence is less than or equal to S.
C2_NoAcknowledgedPending ==
    vlast.op = "reconcile" =>
        \A i \in 1..Len(pendingInputs) : pendingInputs[i].sequence > vlast.seq

\* A reconciliation that acknowledged part of a queue and left the rest.
C2_Witness ==
    /\ vlast.op = "reconcile"
    /\ vlast.seq >= 0
    /\ Len(pendingInputs) > 0
    /\ Len(pendingInputs) < Len(vlast.pendingBefore)

\* The local state the replay of queue from st must end in.
RECURSIVE StateAfterInputs(_, _, _)
StateAfterInputs(st, queue, i) ==
    IF i > Len(queue) THEN st
    ELSE StateAfterInputs(processInput(st, queue[i]), queue, i + 1)

\* The local state with the authoritative position, heading and speed.
Corrected(before, serverState) ==
    [x |-> serverState.x, z |-> serverState.z, rotation |-> serverState.rotation,
     speed |-> serverState.speed, angularVelocity |-> before.angularVelocity]

ReplayedAsClaimed ==
    /\ vlast.replayed = SequencesOf(pendingInputs)
    /\ \A i \in 1..Len(vlast.replayed) : vlast.replayed[i] > vlast.seq
    /\ \A i \in 1..(Len(vlast.replayed) - 1) : vlast.replayed[i] < vlast.replayed[i + 1]
    /\ vstate = StateAfterInputs(Corrected(vlast.stateBefore, vlast.serverState),
                                 pendingInputs, 1)

C4_NoReplayOfAcknowledged ==
    vlast.op = "reconcile" =>
        /\ \A i \in 1..Len(vlast.replayed) : vlast.replayed[i] > vlast.seq
        /\ vlast.repeated => pendingInputs = vlast.pendingBefore

\* The same record applied twice, replaying inputs the second time too.
C4_Witness ==
    /\ vlast.op = "reconcile"
    /\ vlast.repeated
    /\ vlast.seq >= 0
    /\ Len(vlast.replayed) > 0

---------------------------------------------------------------------------
(* Claims about the registry (SpecServer).                                 *)

\* C1: the number of active sessions is at most MAX_PLAYERS, and a connection
\* that arrives while MAX_PLAYERS sessions are active is closed at once with
\* reason "Server full" and registers no session.
C1_CapacityRespected ==
    /\ Cardinality(DOMAIN clients) <= MAX_PLAYERS
    /\ connectionStats.activeConnections = Cardinality(DOMAIN clients)
    /\ (last.op = "connection" /\ last.info.registeredBefore = MAX_PLAYERS) =>
          /\ readyState[last.ws] = "CLOSING"
          /\ closeReason[last.ws] = "Server full"
          /\ last.ws \notin DOMAIN clients
          /\ Cardinality(DOMAIN clients) = MAX_PLAYERS

\* A connection turned away at a full server after a session had left and
\* its place had been taken again.
C1_Witness ==
    /\ last.op = "connection"
    /\ last.info.registeredBefore = MAX_PLAYERS
    /\ connectionStats.disconnections > 0
    /\ closeReason[last.ws] = "Server full"

\* C9: a session whose last-activity age exceeds TIMEOUT_DURATION when the
\* sweep runs is closed; when its close completes it is removed from the
\* registry and one playerDisconnected with its id goes to each remaining
\* session; over its whole life a session is announced as disconnected at
\* most once, however many sweeps run while its close is pending.
C9_TimeoutRemovesOnce ==
    /\ \A ws \in Sockets :
          /\ disconnectedLog[ws] <= 1
          /\ ws \in DOMAIN clients => disconnectedLog[ws] = 0
          /\ closeReason[ws] = "Timeout" => readyState[ws] \in {"CLOSING", "CLOSED"}
          /\ (closeReason[ws] = "Timeout" /\ readyState[ws] = "CLOSED") =>
                ws \notin DOMAIN clients /\ disconnectedLog[ws] = 1
    /\ last.op = "sweep" =>
          \A ws \in DOMAIN clients :
              now - clients[ws].lastPing > TIMEOUT_DURATION =>
                  readyState[ws] = "CLOSING"
    /\ (last.op = "close" /\ closeReason[last.ws] = "Timeout") =>
          /\ last.info.registered
          /\ \A w \in Sockets :
                sent[w] = IF w \in DOMAIN clients /\ readyState[w] = "OPEN"
                          THEN <<[type |-> "playerDisconnected",
                                  id |-> last.info.id]>>
                          ELSE <<>>

\* A timed-out session's close completing while another session is open to
\* hear of it.
C9_Witness ==
    /\ last.op = "close"
    /\ closeReason[last.ws] = "Timeout"
    /\ disconnectedLog[last.ws] = 1
    /\ \E w \in DOMAIN clients : sent[w] # <<>>

\* C10: session ids are unique and strictly increasing in order of
\* acceptance, an id is never assigned twice, and a rejected connection
\* consumes no id.
C10_IdsStrictlyIncreasing ==
    /\ \A i, j \in 1..Len(idLog) : i < j => idLog[i] < idLog[j]
    /\ \A ws \in DOMAIN clients : \E i \in 1..Len(idLog) : clients[ws].id = idLog[i]
    /\ \A v, w \in DOMAIN clients : v # w => clients[v].id # clients[w].id
    /\ (last.op = "connection" /\ ~last.info.accepted) =>
          nextClientId = last.info.nextIdBefore
    /\ (last.op = "connection" /\ last.info.accepted) =>
          /\ clients[last.ws].id = idLog[Len(idLog)]
          /\ nextClientId > clients[last.ws].id

\* A session accepted after an earlier one had disconnected and a connection
\* had been rejected.
C10_Witness ==
    /\ last.op = "connection"
    /\ last.info.accepted
    /\ Len(idLog) >= 3
    /\ connectionStats.disconnections > 0
    /\ \E ws \in Sockets : closeReason[ws] = "Server full"

---------------------------------------------------------------------------
(* Claims about the validator (SpecValidator).                             *)

\* The messages of one type in a socket's output.
OfType(out, type) == SelectSeq(out, LAMBDA m : m.type = type)

\* The claim's thresholds: more than 0.5 in position distance, more than
\* 0.1 rad in heading, more than 1 in speed.
ThresholdExceeded(candidate, reported) ==
    LET dx == candidate.x - reported.x
        dy == candidate.y - reported.y
        dz == candidate.z - reported.z
    IN  \/ Abs(dx) > 500 \/ Abs(dy) > 500 \/ Abs(dz) > 500
        \/ dx * dx + dy * dy + dz * dz > 500 * 500
        \/ Abs(candidate.rotation - reported.rotation) > 100
        \/ Abs(candidate.speed - reported.speed) > 1000

\* The reconciliation the sender of the last position message must get.
ExpectedReconciliation ==
    [type |-> "serverReconciliation",
     sequence |-> last.info.data.sequence,
     x |-> last.info.serverState.x, y |-> last.info.serverState.y,
     z |-> last.info.serverState.z,
     rotation |-> last.info.serverState.rotation,
     speed |-> last.info.serverState.speed,
     timestamp |-> last.info.serverState.timestamp + last.info.deltaTime]

ReconciledWithCandidate ==
    /\ OfType(sent[last.ws], "serverReconciliation") = <<ExpectedReconciliation>>
    /\ clients[last.ws].state = last.info.serverState

AcceptedAsReported ==
    /\ OfType(sent[last.ws], "serverReconciliation") = <<>>
    /\ clients[last.ws].state = last.info.reported

NoReconciliationToOthers ==
    \A w \in Sockets \ {last.ws} : OfType(sent[w], "serverReconciliation") = <<>>

\* C6 as stated: a position message is answered with a serverReconciliation
\* exactly when the candidate state exceeds a threshold; the message carries
\* the command's sequence, goes to the sender only, and the candidate becomes
\* the stored state; otherwise nothing is sent and the reported state is
\* stored.
C6_Original ==
    last.op = "position" =>
        /\ NoReconciliationToOthers
        /\ IF ThresholdExceeded(last.info.serverState, last.info.reported)
           THEN ReconciledWithCandidate
           ELSE AcceptedAsReported

\* C6 as amended: the same for a position message handled while the sender's
\* socket is open; a position message handled while the socket is closing is
\* never answered and its reported state is stored, whatever the thresholds
\* say.
C6_ReconcileWhenOpen ==
    last.op = "position" =>
        /\ NoReconciliationToOthers
        /\ IF ThresholdExceeded(last.info.serverState, last.info.reported)
              /\ last.info.open
           THEN ReconciledWithCandidate
           ELSE AcceptedAsReported

\* A reconciliation sent to an open sender while another session is open.
C6_Witness ==
    /\ last.op = "position"
    /\ last.info.open
    /\ ThresholdExceeded(last.info.serverState, last.info.reported)
    /\ Len(sent[last.ws]) = 1
    /\ \E w \in DOMAIN clients \ {last.ws} : readyState[w] = "OPEN"

\* The physical part of a state.
Physical(st) ==
    [x |-> st.x, y |-> st.y, z |-> st.z, rotation |-> st.rotation,
     speed |-> st.speed]

\* C7 as stated: the candidate of a position message is the integration of
\* the message's controls over the elapsed time from the state the session
\* had stored before the message.
C7_FromStoredState ==
    last.op = "position" =>
        Physical(last.info.serverState) =
            Physical(updateVehicle(last.info.stored,
                                   [controls |-> last.info.data.controls],
                                   last.info.deltaTime))

\* C8: for a position message from a registered session, one playerPosition
\* with the session's id goes to every other open session and none to the
\* sender; it carries the position, heading, speed and sequence of the
\* session's stored state after validation, which are the reported values
\* when no threshold is exceeded.
C8_RelayToOthers ==
    last.op = "position" =>
        LET s == clients[last.ws]
            relayed(w) == OfType(sent[w], "playerPosition")
        IN  /\ relayed(last.ws) = <<>>
            /\ \A w \in Sockets \ {last.ws} :
                  IF w \in DOMAIN clients /\ readyState[w] = "OPEN"
                  THEN /\ Len(relayed(w)) = 1
                       /\ relayed(w)[1].id = s.id
                       /\ relayed(w)[1].x = s.state.x
                       /\ relayed(w)[1].y = s.state.y
                       /\ relayed(w)[1].z = s.state.z
                       /\ relayed(w)[1].rotation = s.state.rotation
                       /\ relayed(w)[1].speed = s.state.speed
                       /\ relayed(w)[1].sequence = s.state.sequence
                  ELSE relayed(w) = <<>>
            /\ ~ThresholdExceeded(last.info.serverState, last.info.reported) =>
                  s.state = last.info.reported

\* A corrected position relayed to the other open session.
C8_Witness ==
    /\ last.op = "position"
    /\ last.info.reconciled
    /\ \E w \in DOMAIN clients \ {last.ws} :
          /\ readyState[w] = "OPEN"
          /\ Len(sent[w]) = 1
          /\ sent[w][1].speed # last.info.reported.speed

---------------------------------------------------------------------------
(* Claims about a client and the server together (SpecNet).                *)

\* C5 as stated: a serverReconciliation the client receives reaches the
\* reconciliation handler with the message's sequence and state, so that the
\* acknowledged pending inputs are discarded.
C5_ReconciliationReachesHandler ==
    (clast.op = "message" /\ clast.type = "serverReconciliation") =>
        /\ clast.applied
        /\ vlast.op = "reconcile"
        /\ vlast.seq = clast.sequence
        /\ \A i \in 1..Len(pendingInputs) :
              pendingInputs[i].sequence > clast.sequence

---------------------------------------------------------------------------
(* Further claims about the vehicle (SpecClient).                          *)

\* C11: an update that creates an input gives it the sequence one greater
\* than that of the input created before it, and the pending-input queue is
\* strictly increasing in sequence (each entry one greater than the entry
\* before it), after any interleaving of updates and reconciliations.
C11_SequencesIncreaseByOne ==
    /\ \A i \in 1..(Len(pendingInputs) - 1) :
          pendingInputs[i + 1].sequence = pendingInputs[i].sequence + 1
    /\ \A i, j \in 1..Len(pendingInputs) :
          i < j => pendingInputs[i].sequence < pendingInputs[j].sequence
    /\ (vlast.op = "update" /\ vlast.created) =>
          /\ pendingInputs # <<>>
          /\ pendingInputs[Len(pendingInputs)].sequence = vlast.previous + 1
          /\ sequence = vlast.previous + 2

\* An update after a reconciliation had trimmed the queue: the new input
\* follows an input that is still pending.
C11_Witness ==
    /\ vlast.op = "update"
    /\ vlast.created
    /\ Len(pendingInputs) = 2
    /\ pendingInputs[1].sequence = 1

---------------------------------------------------------------------------
(* Further claims about the validator (SpecValidator).                     *)

\* C12 as stated, for two position messages a session sends one after the
\* other: the sequence referenced by the second one's serverReconciliation
\* is not older than the sequence referenced by the first one's.
C12_NeverOlderThanLastAck ==
    [][(/\ last.op = "position"
        /\ last.info.reconciled
        /\ last'.op = "position"
        /\ last'.ws = last.ws
        /\ last'.info.reconciled)
       => OfType(sent'[last.ws], "serverReconciliation")[1].sequence >=
              OfType(sent[last.ws], "serverReconciliation")[1].sequence]_vars

---------------------------------------------------------------------------
(* Claims about the size of the client's queues (SpecClient).              *)

\* C13 as stated, with the vehicle's one size limit as the cap: the
\* pending-input queue never holds more than historyMaxSize inputs, so a
\* reconciliation never replays more than that.
C13_PendingQueueBounded ==
    /\ Len(pendingInputs) <= historyMaxSize
    /\ vlast.op = "reconcile" => Len(vlast.replayed) <= historyMaxSize

---------------------------------------------------------------------------
(* Claims about the traffic actor (SpecTraffic).                           *)

\* A multiple of pi/2 in [0, 2*pi).
Cardinal(h) == h \in {0, QuarterTurn, 2 * QuarterTurn, 3 * QuarterTurn}

\* C14: after a completed TURNING cycle the actor's heading is a multiple of
\* pi/2 in [0, 2*pi), and an actor that is MOVING or STOPPED has such a
\* heading.
C14_CardinalHeading ==
    /\ actor.state \in {"moving", "stopped"} => Cardinal(actor.rotation)
    /\ (tlast.op = "update" /\ tlast.stateBefore = "turning"
        /\ actor.state = "moving") => Cardinal(actor.rotation)

\* A turn that ended on another cardinal heading than the one that began it,
\* rounded from a heading in between.
C14_Witness ==
    /\ tlast.op = "update"
    /\ tlast.stateBefore = "turning"
    /\ actor.state = "moving"
    /\ ~Cardinal(tlast.rotationBefore)
    /\ tlast.reset = "none"

\* The actor as the reset procedure leaves it.
FreshlyReset ==
    /\ actor.offRoadCount = 0
    /\ actor.collisionCount = 0
    /\ actor.state = "moving"

\* C15 as stated: the 6th consecutive failed MOVING update resets the actor
\* (counters 0, state MOVING), and none of the first 5 resets it by the
\* off-road count.
C15_Original ==
    (tlast.op = "update" /\ tlast.failed) =>
        /\ tlast.streak = offRoadLimit + 1 =>
              tlast.reset = "counters" /\ FreshlyReset
        /\ (tlast.streak <= offRoadLimit /\ tlast.reset = "counters") =>
              tlast.collisionAtTest > collisionLimit

\* C15 as amended: the same for 6 consecutive failed MOVING updates none of
\* which was cut short by a reset for the collision count; such a reset
\* (collisionCount > 10) can come on any failure and starts the off-road
\* count again.
C15_SixthFailureResets ==
    (tlast.op = "update" /\ tlast.failed) =>
        /\ (tlast.streak = offRoadLimit + 1 /\ ~tlast.resetInStreak) =>
              tlast.reset = "counters" /\ FreshlyReset
        /\ (tlast.streak <= offRoadLimit /\ tlast.reset = "counters") =>
              tlast.collisionAtTest > collisionLimit
        /\ tlast.reset = "counters" => FreshlyReset

\* The 6th failure in a row, with turns in between, resets the actor.
C15_Witness ==
    /\ tlast.op = "update"
    /\ tlast.failed
    /\ tlast.streak = offRoadLimit + 1
    /\ ~tlast.resetInStreak
    /\ tlast.reset = "counters"
    /\ tlast.offRoadAtTest = offRoadLimit + 1

\* C16 as stated: the position a reset gives the actor passes the validity
\* test of movement (on a road and not inside a building).
C16_ResetPositionValid ==
    (tlast.op = "update" /\ tlast.reset # "none") =>
        validPosition(actor.position)


---------------------------------------------------------------------------
(* Claims about one update of the traffic actor (SpecTraffic).             *)

\* The distance between the actor's positions before and after a step; the
\* heading of a moving actor is cardinal, so the move is along one axis.
DistanceMoved == Abs(actor'.position.x - actor.position.x)
                 + Abs(actor'.position.z - actor.position.z)

\* C27: a changed position is a candidate that passed the validity test or
\* comes from a reset; a MOVING update whose candidate is invalid, below the
\* reset thresholds, leaves the position, adds one to collisionCount and to
\* offRoadCount and ends in TURNING with stateTime 0 and a turn direction of
\* +1 or -1.
C27_InvalidCandidateTurns ==
    [][tlast'.op = "update" =>
         /\ actor'.position # actor.position =>
               \/ tlast'.reset # "none"
               \/ tlast'.moved /\ validPosition(actor'.position)
         /\ (/\ tlast'.failed
             /\ tlast'.offRoadAtTest <= offRoadLimit
             /\ tlast'.collisionAtTest <= collisionLimit) =>
               /\ actor.state = "moving"
               /\ actor'.position = actor.position
               /\ actor'.collisionCount = actor.collisionCount + 1
               /\ actor'.offRoadCount = actor.offRoadCount + 1
               /\ actor'.state = "turning"
               /\ actor'.stateTime = 0
               /\ actor'.nextTurn.direction \in {1, -1}]_vars

\* A failure after a valid move that followed failures: the collision count
\* is ahead of the off-road count, and the turn goes left.
C27_Witness ==
    /\ tlast.op = "update"
    /\ tlast.failed
    /\ tlast.reset = "none"
    /\ actor.state = "turning"
    /\ actor.nextTurn.direction = -1
    /\ actor.collisionCount > actor.offRoadCount

\* C28 as stated: a MOVING update with a valid candidate (that stays inside
\* the world) sets offRoadCount to 0 and takes the distance moved off the
\* distance to the next turn; when that reaches zero or less the actor ends
\* the update in TURNING, with a new distance in [100, 300) and a new
\* direction.
C28_ValidCandidateCommits ==
    [][(tlast'.op = "update" /\ tlast'.moved /\ tlast'.reset = "none") =>
         /\ actor'.position # actor.position
         /\ validPosition(actor'.position)
         /\ actor'.offRoadCount = 0
         /\ IF actor.nextTurn.distance - DistanceMoved <= 0
            THEN /\ actor'.state = "turning"
                 /\ actor'.nextTurn.distance >= 100000
                 /\ actor'.nextTurn.distance < 300000
                 /\ actor'.nextTurn.direction \in {1, -1}
            ELSE actor'.nextTurn.distance =
                     actor.nextTurn.distance - DistanceMoved]_vars

\* C29: a STOPPED actor keeps its position and heading; an update leaves it
\* STOPPED while its timer is at most 3 s, has it MOVING when the timer is
\* above 5 s, and takes it nowhere but to MOVING.
C29_StoppedDwell ==
    [][(actor.state = "stopped" /\ tlast'.op = "update") =>
         /\ actor'.position = actor.position
         /\ actor'.rotation = actor.rotation
         /\ actor'.state \in {"stopped", "moving"}
         /\ tlast'.dwell <= stopMinMs => actor'.state = "stopped"
         /\ tlast'.dwell > stopMinMs + stopRangeMs => actor'.state = "moving"]_vars

\* An actor left STOPPED for MOVING with its timer between 3 s and 5 s.
C29_Witness ==
    /\ tlast.op = "update"
    /\ tlast.stateBefore = "stopped"
    /\ tlast.dwell > stopMinMs
    /\ tlast.dwell <= stopMinMs + stopRangeMs
    /\ actor.state = "moving"

\* |x| <= citySize/2 and |z| <= citySize/2.
InsideWorld(position) ==
    /\ 2 * Abs(position.x) <= citySize * 1000
    /\ 2 * Abs(position.z) <= citySize * 1000

\* C30: the actor's position is inside the world after its creation and
\* after every update.
C30_InsideBounds ==
    tlast.op \in {"create", "update"} => InsideWorld(actor.position)

\* A valid move took the actor out of the world and the reset put it back.
C30_Witness ==
    /\ tlast.op = "update"
    /\ tlast.moved
    /\ tlast.reset = "bounds"

---------------------------------------------------------------------------
(* Claims about the client's reconnection (SpecReconnect).                 *)

\* C17: when a socket closes after maxReconnectAttempts reconnections in a
\* row were made without an open, the connection is failed: no timer is
\* scheduled; and in the failed state the close was the last event, no
\* timer is pending, the socket is closed and no event can follow, so
\* connect is not called again.
C17_FailedAfterMaxAttempts ==
    /\ (rlast.op = "close" /\ rlast.waitsBefore = maxReconnectAttempts) =>
          status = "failed" /\ ~timer.pending
    /\ status = "failed" =>
          /\ rlast.op = "close"
          /\ ~timer.pending
          /\ webSocket = "closed"
          /\ ~isConnected
          /\ ~ENABLED SpecReconnectNext

\* The connection has failed after the first connect and five reconnections.
C17_Witness ==
    /\ status = "failed"
    /\ rlast.waitsBefore = maxReconnectAttempts
    /\ connectCalls > maxReconnectAttempts

\* 1000 * 1.5^(k-1) ms, in 1/DelayScale ms.
RECURSIVE statedDelay(_)
statedDelay(k) ==
    IF k = 1 THEN initialReconnectDelay * DelayScale
    ELSE (statedDelay(k - 1) * 3) \div 2

\* C18 as stated: the k-th reconnection in a row waits 1000 * 1.5^(k-1) ms.
C18_DelaysFollowBackoff ==
    /\ \A k \in 1..Len(waits) : waits[k] = statedDelay(k)
    /\ timer.pending => timer.delay = statedDelay(Len(waits))


---------------------------------------------------------------------------
(* Claims about the outputs of an accepted connection (SpecServer).        *)

\* The ids a playerList message lists.
ListedIds(m) == {m.players[k].id : k \in 1..Len(m.players)}

\* C26: after an accepted connection the new session is registered with the
\* default spawn state and counted; it was sent, in this order, the welcome
\* (its id, capacity, tick rate, update rate, timeout), the playerList that
\* lists it, and the ping; every other open session was sent that
\* playerList and nothing else.
C26_AcceptanceOrder ==
    (last.op = "connection" /\ last.info.accepted) =>
        /\ last.ws \in DOMAIN clients
        /\ LET c == clients[last.ws]
               out == sent[last.ws]
           IN  /\ c.id = last.info.nextIdBefore
               /\ Physical(c.state) =
                     [x |-> 0, y |-> 0, z |-> 0, rotation |-> 0, speed |-> 0]
               /\ c.state.sequence = 0
               /\ connectionStats.activeConnections =
                     last.info.registeredBefore + 1
               /\ Len(out) = 3
               /\ out[1].type = "welcome"
               /\ out[1].id = c.id
               /\ out[1].maxPlayers = MAX_PLAYERS
               /\ out[1].tickRate = TICK_RATE
               /\ out[1].updateRate = UPDATE_RATE
               /\ out[1].timeoutDuration = TIMEOUT_DURATION
               /\ out[2].type = "playerList"
               /\ ListedIds(out[2]) = {clients[w].id : w \in DOMAIN clients}
               /\ out[3].type = "ping"
               /\ \A w \in Sockets \ {last.ws} :
                     IF w \in DOMAIN clients /\ readyState[w] = "OPEN"
                     THEN sent[w] = <<out[2]>>
                     ELSE sent[w] = <<>>

\* A session joins an open one after an earlier session has left: its id is
\* not the number of sessions.
C26_Witness ==
    /\ last.op = "connection"
    /\ last.info.accepted
    /\ Cardinality(DOMAIN clients) = 2
    /\ last.info.nextIdBefore > 2
    /\ \E w \in DOMAIN clients \ {last.ws} : Len(sent[w]) = 1

---------------------------------------------------------------------------
(* Claims about messages the server cannot read (SpecServer).              *)

\* A text JSON.parse accepts: null, or an object of one key and value.
WellFormed(text) ==
    \/ text = <<"null">>
    \/ /\ Len(text) = 5
       /\ text[1] = "{"
       /\ text[3] = ":"
       /\ text[5] = "}"

\* C19: after a message that does not parse, no socket is closed or given a
\* close reason, nothing is sent to any socket, and every session's record
\* (state, last input, lastPing) is what it was.
C19_MalformedDropped ==
    (last.op = "message" /\ ~WellFormed(last.info.text)) =>
        /\ sent = NoSent
        /\ clients = last.info.clientsBefore
        /\ readyState = last.info.readyStateBefore
        /\ closeReason = last.info.closeReasonBefore

\* A text cut short arrived from a session while another session was there,
\* at a time later than the sender's last activity.
C19_Witness ==
    /\ last.op = "message"
    /\ ~WellFormed(last.info.text)
    /\ last.info.text # <<>>
    /\ last.ws \in DOMAIN clients
    /\ Cardinality(DOMAIN clients) > 1
    /\ clients[last.ws].lastPing < now


---------------------------------------------------------------------------
(* Claims about position messages with defects (SpecSanitizer).            *)

\* The value of a field, or the claim's default when it is missing or no
\* number.
OrDefault(f, default) == IF f.num THEN f.v ELSE default

\* The message with the claim's defaults in place: 0, 0.5 for position.y,
\* all-false controls.
Defaulted(raw) ==
    [x |-> IF raw.hasPosition /\ raw.positionIsObject
           THEN OrDefault(raw.x, 0) ELSE 0,
     y |-> IF raw.hasPosition /\ raw.positionIsObject
           THEN OrDefault(raw.y, 500) ELSE 500,
     z |-> IF raw.hasPosition /\ raw.positionIsObject
           THEN OrDefault(raw.z, 0) ELSE 0,
     rotation |-> OrDefault(raw.rotation, 0),
     speed |-> OrDefault(raw.speed, 0),
     sequence |-> OrDefault(raw.sequence, 0),
     controls |-> IF raw.hasControls THEN raw.controls ELSE NoControls]

\* C20 as stated: a position message with defects is handled as a position
\* message with the defaults in place: the session's last input is the
\* message with defaults, its stored state carries those values (or, when
\* the validator answered with a reconciliation, the validator's), and
\* every other open session is sent one playerPosition of the session.
C20_DefaultsNotRejection ==
    last.op \in {"position", "positionError"} =>
        LET s == clients[last.ws]
            d == Defaulted(last.info.raw)
        IN  /\ s.hasInput
            /\ s.lastInput = d
            /\ OfType(sent[last.ws], "serverReconciliation") = <<>> =>
                  /\ Physical(s.state) = Physical(d)
                  /\ s.state.sequence = d.sequence
            /\ \A w \in DOMAIN clients \ {last.ws} :
                  readyState[w] = "OPEN" =>
                      /\ Len(OfType(sent[w], "playerPosition")) = 1
                      /\ OfType(sent[w], "playerPosition")[1].id = s.id


---------------------------------------------------------------------------
(* Claims about the interpolation of the remote players.                   *)

\* The progress of a broadcast window [windowStart, windowEnd] at time t,
\* in thousandths: clamp((t - windowStart) / (windowEnd - windowStart), 0, 1).
windowProgress(t, windowStart, windowEnd) ==
    Max(0, Min(((t - windowStart) * 1000) \div (windowEnd - windowStart), 1000))

\* The progress a frame of Vehicle.updateInterpolation works with: at 1 and
\* beyond, the target is taken over; below, the quotient scales the step.
vehicleProgress == IF ilast.progress >= 1000 THEN 1000 ELSE ilast.progress

\* C22: in every frame, for the player OtherPlayersManager interpolates and
\* for the Vehicle of a remote player, the progress is the progress of the
\* broadcast window of the last message, clamped to [0, 1], and at progress
\* 1 the entity is exactly at its target.
C22_ProgressFromWindow ==
    ilast.op = "frame" =>
        /\ ilast.interpolated =>
              /\ ilast.factor = windowProgress(ilast.t, ilast.windowStart,
                                               ilast.windowEnd)
              /\ ilast.factor = 1000 => ilast.atTarget
        /\ ilast.active =>
              /\ vehicleProgress = windowProgress(ilast.t, ilast.windowStart,
                                                  ilast.windowEnd)
              /\ vehicleProgress = 1000 => ilast.vehicleAtTarget

\* C23: in every frame, the heading difference that is scaled by the
\* progress lies in [-pi, pi], for the player OtherPlayersManager
\* interpolates and for the Vehicle of a remote player.
C23_ShortestPath ==
    ilast.op = "frame" =>
        /\ ilast.interpolated =>
              (-PiMilli <= ilast.diff /\ ilast.diff <= PiMilli)
        /\ ilast.active =>
              (-PiMilli <= ilast.vehicleDiff /\ ilast.vehicleDiff <= PiMilli)

---------------------------------------------------------------------------
(* Claims about the client's view of the sessions.                         *)

\* C21: right after the client has processed a playerList, the players it
\* tracks are exactly the ids the list named other than its own; and once
\* it has processed a list sent since the registry last changed, the players
\* it tracks are the registry's sessions other than its own for as long as
\* the registry stays as it is, whatever was dropped before.
C21_SnapshotRepairs ==
    /\ (clast.op = "message" /\ clast.type = "playerList")
          => DOMAIN otherPlayers = clast.listed \ {connId}
    /\ synced => DOMAIN otherPlayers = registryIds \ {connId}

\* A playerList removed a player whose playerDisconnected never arrived, and
\* the view agrees with the registry.
C21_Witness ==
    /\ clast.op = "message" /\ clast.type = "playerList"
    /\ clast.removed # {}
    /\ synced
    /\ registryIds # {connId}

---------------------------------------------------------------------------
(* Claims about the client's and the validator's update functions.         *)

\* C24: after any input sequence replayed through both update functions
\* from the same start state, the two states agree within the drift
\* thresholds: 0.5 in position, 0.1 rad in heading and 1 in speed.
C24_SameUpdate ==
    sideBySide.inputs > 0 =>
        /\ ~fartherThan(sideBySide.server.x - sideBySide.client.x,
                        sideBySide.server.y - 500,
                        sideBySide.server.z - sideBySide.client.z, 500)
        /\ Abs(sideBySide.server.rotation - sideBySide.client.rotation) <= 100
        /\ Abs(sideBySide.server.speed - sideBySide.client.speed) <= 1000

---------------------------------------------------------------------------
(* Claims about the traffic feed.                                          *)

\* C25: every trafficUpdate the connected client takes off the wire is
\* handled by a case of onMessage that passes it to the traffic update
\* handler.
C25_TrafficUpdateHandled ==
    (clast.op = "message" /\ clast.type = "trafficUpdate")
        => clast.handler = "trafficUpdate"

---------------------------------------------------------------------------
(* Claims about what the client sends (SpecNet).                           *)

\* The five control flags of a controls object.
ControlFlags(controls) ==
    <<controls.accelerate, controls.brake, controls.turnLeft,
      controls.turnRight, controls.handbrake>>

\* C31 as stated: every position message carries the sequence of the most
\* recently created input together with that input's control flags
\* (accelerate, brake, turnLeft, turnRight, handbrake), so that the server
\* integrates with the controls the client applied.
C31_CarriesAppliedControls ==
    \A i \in 1..Len(uplink) :
        uplink[i].type = "position" =>
            \A j \in 1..Len(pendingInputs) :
                pendingInputs[j].sequence = uplink[i].sequence.v =>
                    ControlFlags(uplink[i].controls)
                        = ControlFlags(pendingInputs[j].controls)

---------------------------------------------------------------------------
(* Further claims about the validator (SpecValidator).                     *)

\* C32 as stated: the elapsed time the validator integrates over for a
\* position message is the time between the receipt of the session's
\* previous position message and the receipt of this one, the receipt of
\* this one being read off the clock anywhere in the handler's run.
C32_ElapsedSincePreviousMessage ==
    [][\A w \in DOMAIN clients :
          (last'.op = "position" /\ last'.ws = w /\ clients[w].hasInput) =>
              \E e \in HandlerElapsedMs :
                  last'.info.deltaTime = now + e - clients[w].lastInputTime]_vars

---------------------------------------------------------------------------
(* Further claims about reconnection (SpecReconnect).                      *)

\* C33 as stated: a client whose every connection attempt is accepted at
\* transport level and then closed by the server re-attempts only under its
\* capped backoff.  After the close of its k-th connection, every one of
\* which had opened, it has used k of its maxReconnectAttempts attempts, the
\* wait before the next attempt is longer than the wait before this one, and
\* past the last attempt it is in the failed state.
C33_RejectedClientBacksOff ==
    (webSocket = "closed" /\ connectCalls > 0 /\ opens = connectCalls) =>
        /\ reconnectAttempts = Min(connectCalls, maxReconnectAttempts)
        /\ connectCalls > maxReconnectAttempts => status = "failed"
        /\ (connectCalls > 1 /\ connectCalls <= maxReconnectAttempts) =>
              reconnectDelay > nextDelay(initialReconnectDelay * DelayScale)

---------------------------------------------------------------------------
(* Further claims about the traffic actor (SpecTraffic).                   *)

\* The heading the actor had when its turn began: every run of update()
\* since then has turned it by the run's share of a quarter turn, a
\* thousandth of it per ms of stateTime.
HeadingWhenTurnBegan ==
    (actor.rotation - actor.nextTurn.direction * actor.stateTime)
        % (4 * QuarterTurn)

\* C34 as stated: a completed turn turns the actor by a quarter turn in the
\* chosen direction; whatever the durations of the runs of update(), the
\* heading when the actor returns to MOVING is the heading when the turn
\* began plus direction * pi/2, modulo 2*pi.
C34_QuarterTurn ==
    [][(actor.state = "turning" /\ actor'.state = "moving") =>
          actor'.rotation =
              (HeadingWhenTurnBegan + actor.nextTurn.direction * QuarterTurn)
                  % (4 * QuarterTurn)]_vars

---------------------------------------------------------------------------
(* Further claims about the registry (SpecServer).                         *)

\* C35: in every reachable server state the activeConnections counter is
\* the number of entries of the clients registry and is totalConnections
\* less disconnections, for any interleaving of accepted connections,
\* rejected connections, closes and timeout sweeps.
C35_CountersMatchRegistry ==
    /\ connectionStats.activeConnections = Cardinality(DOMAIN clients)
    /\ connectionStats.activeConnections =
          connectionStats.totalConnections - connectionStats.disconnections

\* The close of a timed-out session completes at a server that has turned a
\* connection away and still holds another session.
C35_Witness ==
    /\ last.op = "close"
    /\ closeReason[last.ws] = "Timeout"
    /\ \E ws \in Sockets : closeReason[ws] = "Server full"
    /\ connectionStats.disconnections > 0
    /\ connectionStats.activeConnections > 0

---------------------------------------------------------------------------
(* Claims about messages handled after the close (SpecLate).               *)

\* The sockets whose session's close the server has processed.
ClosedSessions == {w \in Sockets : accepted(w) /\ readyState[w] = "CLOSED"}

\* The ids of the sessions that are registered and not closed.
LiveIds == {clients[w].id : w \in DOMAIN clients \ ClosedSessions}

\* No output names a closed session: nothing is sent to its socket, every
\* playerPosition carries the id of a live session and every playerList
\* lists live sessions only.
NoOutputOfClosed ==
    \A w \in Sockets :
        /\ w \in ClosedSessions => sent[w] = <<>>
        /\ \A k \in 1..Len(sent[w]) :
              /\ sent[w][k].type = "playerPosition" => sent[w][k].id \in LiveIds
              /\ sent[w][k].type = "serverReconciliation" => w \in DOMAIN clients
              /\ sent[w][k].type = "playerList" => ListedIds(sent[w][k]) \subseteq LiveIds

\* What a message handled after the close leaves as it was: the registry,
\* the connection counters and the sockets; and it sends nothing.
LateMessageIgnored ==
    last.op = "late" =>
        /\ clients = last.info.clientsBefore
        /\ connectionStats = last.info.statsBefore
        /\ readyState = last.info.readyStateBefore
        /\ sent = NoSent

\* C36 as stated: once the server has processed the close of a session, a
\* message from that connection that is handled afterwards changes no state
\* and produces no output.
C36_Original ==
    /\ LateMessageIgnored
    /\ last.op = "late" => msgCount = last.info.receivedBefore
    /\ NoOutputOfClosed

\* C36, corrected: once the server has processed the close of a session the
\* session is out of the registry; a message from that connection that is
\* handled afterwards is counted as received and changes nothing else and
\* produces no output; no playerPosition or serverReconciliation of that
\* session is sent after its playerDisconnected, and later playerList
\* snapshots do not contain it.
C36_LateMessageOnlyCounted ==
    /\ \A w \in ClosedSessions : w \notin DOMAIN clients /\ disconnectedLog[w] = 1
    /\ LateMessageIgnored
    /\ last.op = "late" => msgCount = last.info.receivedBefore + 1
    /\ NoOutputOfClosed

\* A position message of a closed session is handled while another session
\* is still registered.
C36_Witness ==
    /\ last.op = "late"
    /\ last.info.type = "position"
    /\ disconnectedLog[last.ws] = 1
    /\ DOMAIN clients # {}

---------------------------------------------------------------------------
(* Claims about the liveness probe (SpecProbe).                            *)

\* C37 as stated: a session whose client answers every ping with a pong,
\* with a round trip shorter than the timeout, and sends nothing else is
\* never closed by the sweep, whatever the time of its connection relative
\* to the ping and sweep intervals.
C37_LiveSessionKept == closeReason[TheSocket] # "Timeout"


\* What the counters are after an update, by what the update did: a failed
\* move counts or resets, and a valid move leaves collisionCount alone.
CountersStep ==
    /\ (tlast'.moved /\ tlast'.reset = "none") =>
          /\ actor'.collisionCount = actor.collisionCount
          /\ actor'.offRoadCount = 0
    /\ (tlast'.failed /\ actor.collisionCount < collisionLimit
                      /\ actor.offRoadCount < offRoadLimit) =>
          /\ tlast'.reset = "none"
          /\ actor'.collisionCount = actor.collisionCount + 1
          /\ actor'.offRoadCount = actor.offRoadCount + 1
    /\ (tlast'.failed /\ actor.collisionCount = collisionLimit) =>
          /\ tlast'.reset = "counters"
          /\ actor'.collisionCount = 0
          /\ actor'.offRoadCount = 0
          /\ actor'.state = "moving"

\* C38: between updates the actor has 0 <= offRoadCount <= 5,
\* 0 <= collisionCount <= 10 and offRoadCount <= collisionCount; a valid
\* move does not clear collisionCount, every failed move that does not reset
\* adds one to it and the failed move that finds it at 10 resets the actor,
\* so the actor is reset at the latest on its 11th failed move since its
\* last reset even when the failures are not consecutive.
C38_CountersBounded ==
    /\ [](/\ actor.offRoadCount \in 0..offRoadLimit
          /\ actor.collisionCount \in 0..collisionLimit
          /\ actor.offRoadCount <= actor.collisionCount)
    /\ [][CountersStep]_vars

\* The 11th failed move since the last reset resets the actor, its failures
\* not consecutive: offRoadCount had not passed its own limit.
C38_Witness ==
    /\ tlast.op = "update"
    /\ tlast.reset = "counters"
    /\ tlast.collisionAtTest = collisionLimit + 1
    /\ tlast.offRoadAtTest <= offRoadLimit


\* An update of an actor outside MOVING advances its timer, and leaves it
\* outside MOVING only with a timer below 1 s when TURNING and of at most 5 s
\* when STOPPED.
TimerRunsOut ==
    /\ (actor.state = "turning" /\ actor'.state # "moving") =>
          /\ actor'.state = "turning"
          /\ actor'.stateTime > actor.stateTime
          /\ actor'.stateTime < 1000
    /\ (actor.state = "stopped" /\ actor'.state # "moving") =>
          /\ actor'.state = "stopped"
          /\ actor'.stateTime > actor.stateTime
          /\ actor'.stateTime <= stopMinMs + stopRangeMs

\* C39: no actor is stuck outside MOVING.  Under updates of positive
\* duration that keep coming, an actor in TURNING is back in MOVING once its
\* timer reaches 1 s and an actor in STOPPED once its timer exceeds 5 s, so
\* the actor is in MOVING again and again.
C39_MovingAgainAndAgain ==
    /\ [][TimerRunsOut]_vars
    /\ []<>(actor.state = "moving")

\* An actor is back in MOVING from a stop that outlasted 5 s.
C39_Witness ==
    /\ tlast.op = "update"
    /\ tlast.stateBefore = "stopped"
    /\ tlast.dwell > stopMinMs + stopRangeMs
    /\ actor.state = "moving"

=============================================================================
